---- MODULE Spec2Model ----
(***************************************************************************)
(* A model of the BlackJackAdvisor decision core: domain primitives, the   *)
(* State Manager, the Strategy Engine (lookup + deviations), the Betting   *)
(* Engine (advantage model + Kelly) and the Monte Carlo simulation driver. *)
(*                                                                         *)
(* Cards are modelled by their rank (the Rank enum's value, 2..14); the    *)
(* suit is read by no decision, count or settlement code.  Floating-point  *)
(* quantities are modelled by exact rationals n/d; money is counted in     *)
(* cents.                                                                  *)
(***************************************************************************)
EXTENDS Integers, Sequences, FiniteSets, TLC

VARIABLES
    \* ---- Strategy Engine harness (StrategyEngine.decide_with_context) ----
    hand,            \* the player's cards (sequence of ranks)
    dealer_up,       \* the dealer's up-card (rank)
    rule_config,     \* RuleConfig: surrender_allowed, deviation_threshold_margin
    decision,        \* the last DecisionResult, or NoDecision
    decide_call,     \* the engine's table, the name of its deviation list and
                     \* the arguments of the last decide_with_context call
    \* ---- Betting Engine (BettingEngine) ----
    betting_config,  \* BettingEngine._config
    advantage_model, \* BettingEngine._estimator._model
    bet_call,        \* the arguments of the last compute_bet call, or NoCall
    bet_amount,      \* the amount the last compute_bet call returned
    advantage_call,  \* the argument and the result of the last get_advantage
                     \* call, or NoAdvantageCall
    \* ---- State Manager (StateManager) ----
    state_manager,   \* _rules, _running_count, _cards_seen, _observed_cards
    reset_burn,      \* the burn_count of the last reset
    \* ---- Simulation driver (BlackjackSimulator) ----
    sim,             \* the simulator's rules, seed and config, and run's locals
    shoe,            \* Shoe: num_decks, _rng, _cards, _dealt_index
    play,            \* the locals of _play_hand
    pc,              \* where the driver stands: "loop", "deal", "player",
                     \* "dealer", "update", "done", "error"
    observations,    \* the cards the agent observed in the current hand
    flight_records,  \* the records handed to the FlightRecorder
    run_no,          \* 1 in a first run, 2 in a second run of the same set-up
    first_result,    \* the SimulationResult of the first run
    \* ---- Live session (LiveSession; its State Manager is state_manager,
    \*      the RuleConfig of its Strategy Engine is rule_config) ----
    session,         \* SessionState: player_cards, dealer_up_card,
                     \* hand_in_progress, hands_played, hands_played_this_shoe
    live_decision,   \* the LiveDecision of the last get_decision call, with
                     \* the true count the call read
    hands_ended      \* history: the end_hand calls since the last start_shoe

strategy_vars == <<hand, dealer_up, rule_config, decision, decide_call>>
betting_vars == <<betting_config, advantage_model, bet_call, bet_amount, advantage_call>>
state_vars == <<state_manager, reset_burn>>

sim_vars ==
    <<sim, shoe, play, pc, observations, flight_records, run_no, first_result>>

live_vars == <<session, live_decision, hands_ended>>

vars == <<strategy_vars, betting_vars, state_vars, sim_vars, live_vars>>

-----------------------------------------------------------------------------
(* Bounds of the model (not program constants).                            *)

\* Largest number of cards in a hand handed to the Strategy Engine.
MaxHandCards == 3
\* The true counts handed to decide are the integers -MaxNegTC .. MaxPosTC.
MaxNegTC == 3
MaxPosTC == 6
\* Largest number of cards observed between two resets of the State Manager
\* harness, and the largest of its small burn counts.
MaxObserved == 3
MaxBurn == 2
\* The number of hands a simulation run is asked for, and the seeds
\* 1 .. NumSeeds it is run with.
MaxHands == 3
NumSeeds == 4
\* Largest number of cards a live session observes in one shoe, and the
\* largest number of hands it ends in one shoe.
MaxLiveCards == 4
MaxLiveHands == 2

-----------------------------------------------------------------------------
(* core/types.py                                                           *)

Ranks == 2..14
TEN == 10
JACK == 11
QUEEN == 12
KING == 13
ACE == 14

\* Rank.blackjack_value
blackjack_value(rank) ==
    IF rank <= 10 THEN rank
    ELSE IF rank \in {11, 12, 13} THEN 10
    ELSE 11

\* Rank.hilo_tag
hilo_tag(rank) ==
    IF rank \in {2, 3, 4, 5, 6} THEN 1
    ELSE IF rank >= 10 THEN -1
    ELSE 0

Actions == {"STAND", "HIT", "DOUBLE", "SPLIT", "SURRENDER"}
None == "NONE"

\* Card.is_ace
is_ace(card) == card = ACE

\* Card.value
card_value(card) == blackjack_value(card)

\* "dealer_up.value if not dealer_up.is_ace else 11", as every caller writes it
dealer_value_of(card) == IF ~is_ace(card) THEN card_value(card) ELSE 11

-----------------------------------------------------------------------------
(* Rationals n/d with d > 0, for the true count and the quantities that    *)
(* are compared with it.                                                   *)

Rat(n, d) == [n |-> n, d |-> d]
RatInt(k) == Rat(k, 1)
RatSub(a, b) == Rat(a.n * b.d - b.n * a.d, a.d * b.d)
RatLt(a, b) == a.n * b.d < b.n * a.d
RatGe(a, b) == a.n * b.d >= b.n * a.d
RatEq(a, b) == a.n * b.d = b.n * a.d

-----------------------------------------------------------------------------
(* core/primitives.py: Hand                                                *)

RECURSIVE SumValues(_)
SumValues(cards) ==
    IF cards = <<>> THEN 0 ELSE card_value(Head(cards)) + SumValues(Tail(cards))

RECURSIVE CountAces(_)
CountAces(cards) ==
    IF cards = <<>> THEN 0
    ELSE (IF is_ace(Head(cards)) THEN 1 ELSE 0) + CountAces(Tail(cards))

\* A reduction that turns every Ace to 1 as soon as the total is above 21
ReduceAcesAllAtOnce(total, aces_as_eleven) ==
    IF total > 21 /\ aces_as_eleven > 0
    THEN [total |-> total - 10 * aces_as_eleven, aces_as_eleven |-> 0]
    ELSE [total |-> total, aces_as_eleven |-> aces_as_eleven]

\* The loop "while total > 21 and aces_as_eleven > 0": the pair it ends with.
RECURSIVE ReduceAces(_, _)
ReduceAces(total, aces_as_eleven) ==
    IF total > 21 /\ aces_as_eleven > 0
    THEN ReduceAces(total - 10, aces_as_eleven - 1)
    ELSE [total |-> total, aces_as_eleven |-> aces_as_eleven]

\* Hand.from_cards (cards non-empty)
from_cards(cards) ==
    LET reduced == ReduceAces(SumValues(cards), CountAces(cards))
    IN  [cards   |-> cards,
         is_pair |-> Len(cards) = 2 /\ cards[1] = cards[2],
         is_soft |-> reduced.aces_as_eleven > 0 /\ reduced.total <= 21,
         total   |-> reduced.total]

\* Hand.__post_init__: the constructor raises ValueError on any other total
hand_is_valid(h) == h.total >= 2 /\ h.total <= 31

\* Hand.hand_type
hand_type(h) == IF h.is_pair THEN "P" ELSE IF h.is_soft THEN "S" ELSE "H"

\* Hand.pair_value (callers test is_pair first)
pair_value(h) == IF h.cards[1] = ACE THEN 11 ELSE blackjack_value(h.cards[1])

\* Hand.is_blackjack
is_blackjack(h) == Len(h.cards) = 2 /\ h.total = 21

\* Hand.add_card
add_card(h, card) == from_cards(Append(h.cards, card))

-----------------------------------------------------------------------------
(* strategy/lookup.py: StrategyLookup                                      *)

\* str.upper() on the action tokens a table may hold and on the outcomes
\* of a hand.
Upper(s) ==
    CASE s = "Ds" -> "DS"
      [] s = "Dh" -> "DH"
      [] s = "Rh" -> "RH"
      [] s = "Rs" -> "RS"
      [] s = "Rp" -> "RP"
      [] s = "Ph" -> "PH"
      [] s = "Pd" -> "PD"
      [] s = "stand" -> "STAND"
      [] s = "hit" -> "HIT"
      [] s = "win" -> "WIN"
      [] s = "loss" -> "LOSS"
      [] s = "push" -> "PUSH"
      [] s = "blackjack" -> "BLACKJACK"
      [] s = "surrender" -> "SURRENDER"
      [] s = "bust" -> "BUST"
      [] OTHER -> s

\* StrategyLookup._action_map, as built by __init__
action_map ==
    [k \in {"STAND", "HIT", "DOUBLE", "SPLIT", "SURRENDER",
            "Ds", "Dh", "Rh", "Rs", "Rp", "Ph", "Pd"} |->
        CASE k = "STAND" -> "STAND"
          [] k = "HIT" -> "HIT"
          [] k = "DOUBLE" -> "DOUBLE"
          [] k = "SPLIT" -> "SPLIT"
          [] k = "SURRENDER" -> "SURRENDER"
          [] k \in {"Ds", "Dh"} -> "DOUBLE"
          [] k \in {"Rh", "Rs", "Rp"} -> "SURRENDER"
          [] k \in {"Ph", "Pd"} -> "SPLIT"]

\* The format spec ":02d"
Pad2(v) == IF v < 10 THEN "0" \o ToString(v) ELSE ToString(v)

\* StrategyLookup._generate_key
generate_key(h, dealer) ==
    LET dealer_value == dealer_value_of(dealer)
    IN  IF h.is_pair
        THEN hand_type(h) \o "_" \o Pad2(pair_value(h)) \o ":" \o Pad2(dealer_value)
        ELSE hand_type(h) \o "_" \o ToString(h.total) \o ":" \o Pad2(dealer_value)

\* StrategyLookup._generate_alt_key
generate_alt_key(h, dealer) ==
    LET dealer_value == dealer_value_of(dealer)
        value == IF h.is_pair THEN pair_value(h) ELSE h.total
    IN  hand_type(h) \o "_" \o ToString(value) \o ":" \o ToString(dealer_value)

\* dict.get(key): the stored token, or None
table_get(table, key) == IF key \in DOMAIN table THEN table[key] ELSE None

\* StrategyLookup.lookup: the Action, or None
lookup(table, h, dealer) ==
    LET first == table_get(table, generate_key(h, dealer))
        action_str == IF first = None
                      THEN table_get(table, generate_alt_key(h, dealer))
                      ELSE first
    IN  IF action_str = None THEN None
        ELSE IF Upper(action_str) \in DOMAIN action_map
             THEN action_map[Upper(action_str)]
             ELSE None

-----------------------------------------------------------------------------
(* strategy/deviations.py                                                  *)

ABOVE_OR_EQUAL == "ABOVE_OR_EQUAL"
BELOW == "BELOW"

Deviation(id, type, value, dealer, threshold, direction, action, priority) ==
    [id |-> id, hand_type |-> type, value |-> value, dealer_up |-> dealer,
     threshold |-> threshold, direction |-> direction, action |-> action,
     priority |-> priority]

ILLUSTRIOUS_18 == <<
    Deviation("ILL_16v10", "H", 16, 10, 0, ABOVE_OR_EQUAL, "STAND", 1),
    Deviation("ILL_15v10", "H", 15, 10, 4, ABOVE_OR_EQUAL, "STAND", 2),
    Deviation("ILL_20vA", "P", 10, 11, 6, ABOVE_OR_EQUAL, "SPLIT", 3),
    Deviation("ILL_10v10", "H", 10, 10, 4, ABOVE_OR_EQUAL, "DOUBLE", 4),
    Deviation("ILL_12v3", "H", 12, 3, 2, ABOVE_OR_EQUAL, "STAND", 5),
    Deviation("ILL_12v2", "H", 12, 2, 3, ABOVE_OR_EQUAL, "STAND", 6),
    Deviation("ILL_11vA", "H", 11, 11, 1, ABOVE_OR_EQUAL, "DOUBLE", 7),
    Deviation("ILL_9v2", "H", 9, 2, 1, ABOVE_OR_EQUAL, "DOUBLE", 8),
    Deviation("ILL_10vA", "H", 10, 11, 4, ABOVE_OR_EQUAL, "DOUBLE", 9),
    Deviation("ILL_9v7", "H", 9, 7, 3, ABOVE_OR_EQUAL, "DOUBLE", 10),
    Deviation("ILL_16v9", "H", 16, 9, 5, ABOVE_OR_EQUAL, "STAND", 11),
    Deviation("ILL_13v2", "H", 13, 2, -1, BELOW, "HIT", 12),
    Deviation("ILL_12v4", "H", 12, 4, 0, BELOW, "HIT", 13),
    Deviation("ILL_12v5", "H", 12, 5, -2, BELOW, "HIT", 14),
    Deviation("ILL_12v6", "H", 12, 6, -1, BELOW, "HIT", 15),
    Deviation("ILL_13v3", "H", 13, 3, -2, BELOW, "HIT", 16) >>

FAB_4 == <<
    Deviation("FAB_15v10", "H", 15, 10, 0, ABOVE_OR_EQUAL, "SURRENDER", 100),
    Deviation("FAB_15vA", "H", 15, 11, 1, ABOVE_OR_EQUAL, "SURRENDER", 101),
    Deviation("FAB_14v10", "H", 14, 10, 3, ABOVE_OR_EQUAL, "SURRENDER", 102),
    Deviation("FAB_15v9", "H", 15, 9, 2, ABOVE_OR_EQUAL, "SURRENDER", 103) >>


\* Deviation.is_triggered
is_triggered(dev, true_count) ==
    IF dev.direction = ABOVE_OR_EQUAL
    THEN RatGe(true_count, RatInt(dev.threshold))
    ELSE RatLt(true_count, RatInt(dev.threshold))

\* The index key of _rebuild_index and check_deviation
index_key(type, value, dealer) ==
    type \o "_" \o ToString(value) \o "_" \o ToString(dealer)

\* DeviationEngine.__init__ / load: the engine's deviations, each with the
\* key _rebuild_index files it under (the index is built once, when the
\* engine is constructed)
DeviationEngine(devs) ==
    [i \in 1..Len(devs) |->
        [id |-> devs[i].id, hand_type |-> devs[i].hand_type, value |-> devs[i].value,
         dealer_up |-> devs[i].dealer_up, threshold |-> devs[i].threshold,
         direction |-> devs[i].direction, action |-> devs[i].action,
         priority |-> devs[i].priority,
         key |-> index_key(devs[i].hand_type, devs[i].value, devs[i].dealer_up)]]

\* create_standard_deviation_engine: the engine of the Illustrious 18 and
\* the Fab 4
create_standard_deviation_engine == DeviationEngine(ILLUSTRIOUS_18 \o FAB_4)

\* list.sort(key=priority, reverse=True): stable, highest priority first
RECURSIVE InsertByPriority(_, _)
InsertByPriority(sorted, dev) ==
    IF sorted = <<>> THEN <<dev>>
    ELSE IF Head(sorted).priority >= dev.priority
         THEN <<Head(sorted)>> \o InsertByPriority(Tail(sorted), dev)
         ELSE <<dev>> \o sorted

RECURSIVE SortByPriority(_)
SortByPriority(devs) ==
    IF devs = <<>> THEN <<>>
    ELSE InsertByPriority(SortByPriority(SubSeq(devs, 1, Len(devs) - 1)),
                          devs[Len(devs)])

\* DeviationEngine._rebuild_index, read at one key: self._index.get(key, [])
rebuild_index(devs, key) ==
    LET AtKey(dev) == dev.key = key
    IN  SortByPriority(SelectSeq(devs, AtKey))

\* The loop of check_deviation: the first triggered candidate's action
RECURSIVE FirstTriggered(_, _)
FirstTriggered(candidates, true_count) ==
    IF candidates = <<>> THEN None
    ELSE IF is_triggered(Head(candidates), true_count)
         THEN Head(candidates).action
         ELSE FirstTriggered(Tail(candidates), true_count)

\* DeviationEngine.check_deviation
check_deviation(devs, h, dealer, true_count) ==
    LET type == IF h.is_pair THEN "P" ELSE IF h.is_soft THEN "S" ELSE "H"
        value == IF h.is_pair THEN pair_value(h) ELSE h.total
        key == index_key(type, value, dealer_value_of(dealer))
    IN  FirstTriggered(rebuild_index(devs, key), true_count)

\* DeviationEngine.check_surrender_deviation
check_surrender_deviation(devs, h, dealer, true_count) ==
    LET action == check_deviation(devs, h, dealer, true_count)
    IN  IF action = "SURRENDER" THEN action ELSE None

-----------------------------------------------------------------------------
(* strategy/engine.py: StrategyEngine                                      *)

\* DecisionResult
DecisionResult(action, baseline_action, deviation_id, true_count) ==
    [action |-> action, baseline_action |-> baseline_action,
     deviation_id |-> deviation_id, true_count |-> true_count]

\* DecisionResult.deviated
deviated(result) == result.action # result.baseline_action

\* StrategyEngine._validate_action
validate_action(action, h) ==
    IF action = "DOUBLE" /\ Len(h.cards) > 2 THEN "HIT"
    ELSE IF action = "SPLIT" /\ ~h.is_pair THEN "HIT"
    ELSE IF action = "SURRENDER" /\ Len(h.cards) > 2 THEN "HIT"
    ELSE action

\* StrategyEngine._calculate_fallback_action
calculate_fallback_action(h, dealer) ==
    LET total == h.total
        dealer_value == dealer_value_of(dealer)
        double_or_hit == IF Len(h.cards) = 2 THEN "DOUBLE" ELSE "HIT"
    IN  IF ~h.is_soft
        THEN IF total >= 17 THEN "STAND"
             ELSE IF total >= 13 /\ dealer_value <= 6 THEN "STAND"
             ELSE IF total = 12 /\ 4 <= dealer_value /\ dealer_value <= 6 THEN "STAND"
             ELSE IF total = 11 THEN double_or_hit
             ELSE IF total = 10 /\ dealer_value <= 9 THEN double_or_hit
             ELSE IF total = 9 /\ 3 <= dealer_value /\ dealer_value <= 6 THEN double_or_hit
             ELSE "HIT"
        ELSE IF total >= 19 THEN "STAND"
             ELSE IF total = 18
                  THEN (IF dealer_value >= 9 THEN "HIT" ELSE "STAND")
                  ELSE "HIT"

\* StrategyEngine._get_fallback_strategy: the in-memory table used when the
\* strategy file is not found
get_fallback_strategy ==
    [k \in {"H_17:02", "H_17:07", "H_17:10", "H_16:02", "H_16:07", "H_16:10",
            "H_15:02", "H_15:07", "H_15:10", "H_14:02", "H_14:07", "H_14:10",
            "H_13:02", "H_13:07", "H_13:10", "H_12:02", "H_12:04", "H_12:07",
            "H_11:02", "H_11:10", "H_11:11", "H_10:02", "H_10:10", "H_10:11",
            "H_9:02", "H_9:03", "H_9:07",
            "S_20:02", "S_20:10", "S_19:02", "S_19:06", "S_19:10",
            "S_18:02", "S_18:09", "S_18:10", "S_17:02", "S_17:03", "S_17:07",
            "P_11:02", "P_11:10", "P_10:02", "P_10:10", "P_08:02", "P_08:10"} |->
        CASE k \in {"H_17:02", "H_17:07", "H_17:10", "H_16:02", "H_15:02",
                    "H_14:02", "H_13:02", "H_12:04",
                    "S_20:02", "S_20:10", "S_19:02", "S_19:10", "S_18:02",
                    "P_10:02", "P_10:10"} -> "STAND"
          [] k \in {"H_11:02", "H_11:10", "H_10:02", "H_9:03",
                    "S_19:06", "S_17:03"} -> "DOUBLE"
          [] k \in {"P_11:02", "P_11:10", "P_08:02", "P_08:10"} -> "SPLIT"
          [] OTHER -> "HIT"]

\* _get_baseline_action without the fallback of line 262: what the lookup
\* found is validated and returned, none included
get_baseline_action_without_fallback(table, h, dealer) ==
    validate_action(lookup(table, h, dealer), h)

\* StrategyEngine._get_baseline_action
get_baseline_action(table, h, dealer) ==
    LET baseline_action == lookup(table, h, dealer)
    IN  IF baseline_action # None
        THEN validate_action(baseline_action, h)
        ELSE calculate_fallback_action(h, dealer)

\* StrategyEngine._get_triggered_deviation_id
get_triggered_deviation_id(h, dealer) ==
    LET hand_desc == IF h.is_pair THEN "P" \o ToString(pair_value(h))
                     ELSE IF h.is_soft THEN "S" \o ToString(h.total)
                     ELSE "H" \o ToString(h.total)
    IN  "DEV_" \o hand_desc \o "v" \o ToString(dealer_value_of(dealer))

\* "return None" of the deviation checks that return (deviation_id, action)
NoDeviation == [id |-> None, action |-> None]

\* StrategyEngine._check_deviation_with_margin: (deviation_id, action), or None
check_deviation_with_margin(devs, h, dealer, true_count, margin, surrender_only) ==
    LET adjusted == RatSub(true_count, margin)
        action == IF surrender_only
                  THEN check_surrender_deviation(devs, h, dealer, adjusted)
                  ELSE check_deviation(devs, h, dealer, adjusted)
    IN  IF surrender_only
        THEN (IF action # None
              THEN [id |-> get_triggered_deviation_id(h, dealer), action |-> action]
              ELSE NoDeviation)
        ELSE (IF action # None /\ action # "SURRENDER"
              THEN [id |-> get_triggered_deviation_id(h, dealer), action |-> action]
              ELSE NoDeviation)

\* StrategyEngine._decide_split_with_context
decide_split_with_context(devs, h, dealer, true_count, margin) ==
    LET result == check_deviation_with_margin(devs, h, dealer, true_count, margin, FALSE)
    IN  IF result # NoDeviation /\ result.action = "SPLIT" THEN result ELSE NoDeviation

\* decide_with_context without the early return of lines 186-192: the
\* playing deviations are consulted whatever use_deviations says
decide_with_context_ignoring_flag(cfg, table, devs, h, dealer, true_count, use_deviations) ==
    LET baseline_action == get_baseline_action(table, h, dealer)
        deviation_result ==
            check_deviation_with_margin(devs, h, dealer, true_count,
                                        cfg.deviation_threshold_margin, FALSE)
    IN  IF deviation_result # NoDeviation
        THEN DecisionResult(deviation_result.action, baseline_action,
                            deviation_result.id, true_count)
        ELSE DecisionResult(baseline_action, baseline_action, None, true_count)

\* StrategyEngine.decide_with_context
decide_with_context(cfg, table, devs, h, dealer, true_count, use_deviations) ==
    LET margin == cfg.deviation_threshold_margin
        baseline_action == get_baseline_action(table, h, dealer)
        surrender_result ==
            IF cfg.surrender_allowed /\ Len(h.cards) = 2
            THEN check_deviation_with_margin(devs, h, dealer, true_count, margin, TRUE)
            ELSE NoDeviation
        split_result ==
            IF h.is_pair
            THEN decide_split_with_context(devs, h, dealer, true_count, margin)
            ELSE NoDeviation
        deviation_result ==
            check_deviation_with_margin(devs, h, dealer, true_count, margin, FALSE)
    IN  IF ~use_deviations
        THEN DecisionResult(baseline_action, baseline_action, None, true_count)
        ELSE IF surrender_result # NoDeviation
        THEN DecisionResult(surrender_result.action, baseline_action,
                            surrender_result.id, true_count)
        ELSE IF split_result # NoDeviation /\ split_result.action = "SPLIT"
        THEN DecisionResult(split_result.action, baseline_action,
                            split_result.id, true_count)
        ELSE IF h.is_pair /\ baseline_action = "SPLIT"
        THEN DecisionResult("SPLIT", baseline_action, None, true_count)
        ELSE IF deviation_result # NoDeviation /\ deviation_result.action # "SURRENDER"
        THEN DecisionResult(deviation_result.action, baseline_action,
                            deviation_result.id, true_count)
        ELSE DecisionResult(baseline_action, baseline_action, None, true_count)

\* StrategyEngine.decide
decide(cfg, table, devs, h, dealer, true_count, use_deviations) ==
    decide_with_context(cfg, table, devs, h, dealer, true_count, use_deviations).action

-----------------------------------------------------------------------------
(* Exact arithmetic for the Betting Engine and the State Manager.  The     *)
(* code computes in binary floating point; the model computes the same     *)
(* expressions over normalised rationals.  Money is counted in cents.      *)

Abs(x) == IF x < 0 THEN 0 - x ELSE x

RECURSIVE Gcd(_, _)
Gcd(a, b) == IF b = 0 THEN a ELSE Gcd(b, a % b)

RatNorm(r) ==
    LET g == Gcd(Abs(r.n), r.d)
    IN  Rat(r.n \div g, r.d \div g)

RatAdd(a, b) == RatNorm(Rat(a.n * b.d + b.n * a.d, a.d * b.d))
RatMul(a, b) == RatNorm(Rat(a.n * b.n, a.d * b.d))
\* a / b for b > 0
RatDiv(a, b) == RatNorm(Rat(a.n * b.d, a.d * b.n))

\* a < b, comparing the integer parts before the fractional parts
RatLess(a, b) ==
    LET fa == a.n \div a.d
        fb == b.n \div b.d
    IN  \/ fa < fb
        \/ fa = fb /\ (a.n % a.d) * b.d < (b.n % b.d) * a.d

\* Python's min(a, b) and max(a, b)
RatMin(a, b) == IF RatLess(b, a) THEN b ELSE a
RatMax(a, b) == IF RatLess(a, b) THEN b ELSE a

\* Amounts of money, in cents
Dollars(x) == x * 100

-----------------------------------------------------------------------------
(* src/config/loader.py: GameRules                                         *)

GameRules(num_decks, penetration, dealer_stands_soft_17, double_after_split, surrender_allowed, double_10_11_only, double_9_10_11_only, blackjack_pays) ==
    [num_decks |-> num_decks, cards_per_deck |-> 52,
     penetration |-> penetration,
     dealer_stands_soft_17 |-> dealer_stands_soft_17,
     double_after_split |-> double_after_split,
     surrender_allowed |-> surrender_allowed,
     double_10_11_only |-> double_10_11_only,
     double_9_10_11_only |-> double_9_10_11_only,
     blackjack_pays |-> blackjack_pays]

\* GameRules()
DefaultGameRules ==
    GameRules(6, Rat(3, 4), TRUE, TRUE, TRUE, FALSE, FALSE, Rat(3, 2))

\* GameRules.total_cards
total_cards(rules) == rules.num_decks * rules.cards_per_deck

-----------------------------------------------------------------------------
(* src/betting/estimator.py                                                *)

AdvantageModel(slope, baseline_edge) ==
    [slope |-> slope, baseline_edge |-> baseline_edge]

\* AdvantageModel(): slope 0.005, baseline_edge 0.005
DefaultAdvantageModel == AdvantageModel(Rat(1, 200), Rat(1, 200))

\* A calculate_advantage that adds the baseline edge
calculate_advantage_adding_edge(model, true_count) ==
    RatNorm(RatAdd(RatMul(true_count, model.slope), model.baseline_edge))

\* AdvantageModel.calculate_advantage
calculate_advantage(model, true_count) ==
    RatNorm(RatSub(RatMul(true_count, model.slope), model.baseline_edge))

\* A from_rules that takes the H17 adjustment off the baseline
from_rules_h17_discount(rules) ==
    LET baseline ==
            40
            - (IF ~rules.dealer_stands_soft_17 THEN 22 ELSE 0)
            + (IF RatLess(rules.blackjack_pays, Rat(7, 5)) THEN 139 ELSE 0)
            + (IF ~rules.double_after_split THEN 14 ELSE 0)
            + (IF ~rules.surrender_allowed THEN 8 ELSE 0)
            + (IF rules.double_10_11_only THEN 18
               ELSE IF rules.double_9_10_11_only THEN 9 ELSE 0)
    IN  AdvantageModel(Rat(1, 200), RatNorm(Rat(baseline, 10000)))

\* AdvantageModel.from_rules; the baseline is summed in units of 0.0001
from_rules(rules) ==
    LET baseline ==
            40
            + (IF ~rules.dealer_stands_soft_17 THEN 22 ELSE 0)
            + (IF RatLess(rules.blackjack_pays, Rat(7, 5)) THEN 139 ELSE 0)
            + (IF ~rules.double_after_split THEN 14 ELSE 0)
            + (IF ~rules.surrender_allowed THEN 8 ELSE 0)
            + (IF rules.double_10_11_only THEN 18
               ELSE IF rules.double_9_10_11_only THEN 9 ELSE 0)
    IN  AdvantageModel(Rat(1, 200), RatNorm(Rat(baseline, 10000)))

\* EVEstimator.estimate_advantage (deck_adjustment is left at its default)
estimate_advantage(model, true_count, num_decks) ==
    LET base_advantage == calculate_advantage(model, true_count)
        deck_factor == RatNorm(Rat(6, num_decks))
        adjustment ==
            RatAdd(RatInt(1), RatMul(RatAdd(deck_factor, RatInt(-1)), Rat(1, 10)))
    IN  RatMul(base_advantage, adjustment)

\* EVEstimator.breakeven_count
breakeven_count(model) == RatDiv(model.baseline_edge, model.slope)

-----------------------------------------------------------------------------
(* src/betting/kelly.py                                                    *)

\* KellyCalculator.BLACKJACK_VARIANCE = 1.26
BLACKJACK_VARIANCE == Rat(63, 50)

BetLimits(table_min, table_max, max_bet_spread) ==
    [table_min |-> table_min, table_max |-> table_max,
     max_bet_spread |-> max_bet_spread]

\* A clamp that leaves out the upper table limit.
clamp_without_table_max(limits, bet) ==
    RatMax(RatInt(limits.table_min), bet)
\* BetLimits.clamp
clamp(limits, bet) ==
    RatMax(RatInt(limits.table_min), RatMin(RatInt(limits.table_max), bet))

\* KellyCalculator.calculate_bet_fraction
calculate_bet_fraction(kelly_fraction, advantage) ==
    IF advantage.n <= 0
    THEN RatInt(0)
    ELSE RatMul(RatDiv(advantage, BLACKJACK_VARIANCE), kelly_fraction)

\* KellyCalculator.calculate_bet_amount
calculate_bet_amount(kelly_fraction, advantage, bankroll, limits) ==
    IF bankroll.n <= 0
    THEN RatInt(0)
    ELSE LET fraction == calculate_bet_fraction(kelly_fraction, advantage)
             bet == RatMul(bankroll, fraction)
         IN  RatMin(clamp(limits, bet), bankroll)

-----------------------------------------------------------------------------
(* src/betting/engine.py                                                   *)

BettingConfig(kelly_fraction, table_min, table_max, max_spread, num_decks, flat_betting, max_betting_penetration) ==
    [kelly_fraction |-> kelly_fraction, table_min |-> table_min,
     table_max |-> table_max, max_spread |-> max_spread,
     num_decks |-> num_decks, flat_betting |-> flat_betting,
     max_betting_penetration |-> max_betting_penetration]

\* BettingConfig()
DefaultBettingConfig ==
    BettingConfig(Rat(1, 2), Dollars(10), Dollars(1000), RatInt(12), 6,
                  FALSE, Rat(17, 20))

\* round(bet, 2): the whole number of cents nearest to bet (a tie goes to
\* the even cent)
round2(bet) ==
    LET q == bet.n \div bet.d
        r == bet.n % bet.d
    IN  IF 2 * r < bet.d THEN q
        ELSE IF 2 * r > bet.d THEN q + 1
        ELSE IF q % 2 = 0 THEN q ELSE q + 1

\* A cutoff test that also cuts off at the threshold itself.
beyond_cutoff_or_at(cfg, penetration) ==
    ~RatLess(penetration, cfg.max_betting_penetration)
\* compute_bet: penetration > self._config.max_betting_penetration
beyond_cutoff(cfg, penetration) ==
    RatLess(cfg.max_betting_penetration, penetration)

\* compute_bet, steps 1 to 5: the Kelly bet under the spread limit and the
\* bankroll, never below the table minimum
kelly_sized_bet(cfg, model, true_count, bankroll) ==
    LET limits == BetLimits(cfg.table_min, cfg.table_max, cfg.max_spread)
        advantage == estimate_advantage(model, true_count, cfg.num_decks)
        kelly_bet == calculate_bet_amount(cfg.kelly_fraction, advantage,
                                          bankroll, limits)
        max_bet == RatMul(RatInt(limits.table_min), cfg.max_spread)
        spread_bet == RatMin(kelly_bet, max_bet)
        bet == RatMin(spread_bet, bankroll)
        affordable == ~RatLess(bankroll, RatInt(limits.table_min))
    IN  IF RatLess(bet, RatInt(limits.table_min))
        THEN (IF advantage.n > 0 /\ affordable
              THEN limits.table_min
              ELSE IF affordable THEN limits.table_min ELSE 0)
        ELSE round2(bet)

\* A compute_bet that sizes every bet by the count, flat betting or not.
compute_bet_ignoring_flat(cfg, model, true_count, bankroll, penetration) ==
    IF RatLess(bankroll, RatInt(cfg.table_min)) THEN 0
    ELSE IF beyond_cutoff(cfg, penetration) THEN cfg.table_min
    ELSE kelly_sized_bet(cfg, model, true_count, bankroll)
\* BettingEngine.compute_bet: a whole number of cents
compute_bet(cfg, model, true_count, bankroll, penetration) ==
    IF RatLess(bankroll, RatInt(cfg.table_min)) THEN 0
    ELSE IF cfg.flat_betting THEN cfg.table_min
    ELSE IF beyond_cutoff(cfg, penetration) THEN cfg.table_min
    ELSE kelly_sized_bet(cfg, model, true_count, bankroll)

-----------------------------------------------------------------------------
(* src/state/manager.py                                                    *)

\* StateManager.__init__
StateManager(rules) ==
    [rules |-> rules, running_count |-> 0, cards_seen |-> 0,
     observed_cards |-> <<>>]

\* StateManager.observe
RECURSIVE observe(_, _)
observe(s, cards) ==
    IF cards = <<>> THEN s
    ELSE observe([s EXCEPT !.running_count = @ + hilo_tag(Head(cards)),
                           !.cards_seen = @ + 1,
                           !.observed_cards = Append(@, Head(cards))],
                 Tail(cards))

\* StateManager.observe_card
observe_card(s, card) == observe(s, <<card>>)

\* StateManager._calculate_decks_remaining
calculate_decks_remaining(s) ==
    LET cards_remaining == total_cards(s.rules) - s.cards_seen
        decks == RatNorm(Rat(cards_remaining, s.rules.cards_per_deck))
    IN  RatMax(Rat(1, 2), decks)

\* StateManager._calculate_true_count
calculate_true_count(s, decks_remaining) ==
    RatDiv(RatInt(s.running_count), decks_remaining)

\* StateManager.get_metrics
get_metrics(s) ==
    LET decks_remaining == calculate_decks_remaining(s)
    IN  [true_count |-> calculate_true_count(s, decks_remaining),
         cards_remaining |-> total_cards(s.rules) - s.cards_seen,
         running_count |-> s.running_count,
         decks_remaining |-> decks_remaining,
         penetration |-> IF total_cards(s.rules) > 0
                         THEN RatNorm(Rat(s.cards_seen, total_cards(s.rules)))
                         ELSE RatInt(0)]

\* A reset that keeps the running count.
reset_keeping_count(s, burn_count) ==
    [s EXCEPT !.cards_seen = burn_count, !.observed_cards = <<>>]
\* StateManager.reset (the rules are left as they are)
reset(s, burn_count) ==
    [s EXCEPT !.running_count = 0, !.cards_seen = burn_count,
              !.observed_cards = <<>>]

-----------------------------------------------------------------------------
(* interfaces/simulator.py: SimulatorConfig                                *)

\* wong_out_threshold = None
NoThreshold == Rat(0, 0)

SimulatorConfig(config_id, use_counting, use_deviations, betting_strategy, log_json, wong_out_threshold, min_hands_per_shoe, simulate_late_entry, late_entry_max_pen) ==
    [config_id |-> config_id, use_counting |-> use_counting,
     use_deviations |-> use_deviations, betting_strategy |-> betting_strategy,
     log_json |-> log_json, wong_out_threshold |-> wong_out_threshold,
     min_hands_per_shoe |-> min_hands_per_shoe,
     simulate_late_entry |-> simulate_late_entry,
     late_entry_max_pen |-> late_entry_max_pen]

\* SimulatorConfig.control()
control ==
    SimulatorConfig("B0_S0", FALSE, FALSE, "FLAT", FALSE, NoThreshold, 0, FALSE, Rat(1, 2))
\* SimulatorConfig.full_engine()
full_engine ==
    SimulatorConfig("B1_S2", TRUE, TRUE, "KELLY", FALSE, NoThreshold, 0, FALSE, Rat(1, 2))
\* SimulatorConfig.flat_with_deviations()
flat_with_deviations ==
    SimulatorConfig("B0_S2", TRUE, TRUE, "FLAT", FALSE, NoThreshold, 0, FALSE, Rat(1, 2))
\* SimulatorConfig.kelly_no_deviations()
kelly_no_deviations ==
    SimulatorConfig("B1_S0", TRUE, FALSE, "KELLY", FALSE, NoThreshold, 0, FALSE, Rat(1, 2))

-----------------------------------------------------------------------------
(* interfaces/simulator.py: Shoe.  random.Random is the standard library's *)
(* generator; a 16-bit linear congruential generator stands in for it: a   *)
(* deterministic function of the seed and of the draws made so far.        *)

\* random.Random(seed)
rng_seed(seed) == seed % 65536
\* the generator's state after one draw
rng_next(rng) == (rng * 25173 + 13849) % 65536
\* Random._randbelow(n): a draw from 0 .. n-1
randbelow(rng, n) == (rng_next(rng) * n) \div 65536

\* Random.shuffle, one pass of its loop: position i is swapped with a
\* position drawn from the first i
shuffle_step(st, i) ==
    CHOOSE swapped \in
        {LET j == randbelow(x.rng, i) + 1
         IN  [cards |-> [x.cards EXCEPT ![i] = x.cards[j], ![j] = x.cards[i]],
              rng |-> rng_next(x.rng)] : x \in {st}} : TRUE

\* Random.shuffle, the passes of its loop for i from hi down to lo (the
\* range is halved, and each half evaluated before the next, so that the
\* evaluation stays shallow)
RECURSIVE shuffle_steps(_, _, _)
shuffle_steps(st, hi, lo) ==
    IF hi < lo THEN st
    ELSE IF hi = lo THEN shuffle_step(st, hi)
    ELSE LET mid == (hi + lo) \div 2
         IN  CHOOSE done \in
                 {shuffle_steps(half, mid, lo) :
                     half \in {shuffle_steps(st, hi, mid + 1)}} : TRUE

\* Random.shuffle: for i from the last position down to the second
rng_shuffle(cards, rng) ==
    shuffle_steps([cards |-> cards, rng |-> rng], Len(cards), 2)

\* The cards Shoe.shuffle appends before shuffling: per deck, per suit, the
\* ranks in the order of the Rank enum
fresh_shoe(num_decks) ==
    [i \in 1..(num_decks * 52) |-> 2 + ((i - 1) % 13)]

\* Shoe.shuffle
shuffle(sh) ==
    LET shuffled == rng_shuffle(fresh_shoe(sh.num_decks), sh.rng)
    IN  [sh EXCEPT !.cards = shuffled.cards, !.rng = shuffled.rng,
                   !.dealt_index = 0]

\* Shoe.__init__
Shoe(num_decks, seed) ==
    shuffle([num_decks |-> num_decks, rng |-> rng_seed(seed), cards |-> <<>>,
             dealt_index |-> 0])

\* Shoe.deal raises RuntimeError unless a card is left
can_deal(sh, count) == sh.dealt_index + count <= Len(sh.cards)
\* the card the k-th coming call of Shoe.deal returns
dealt_card(sh, k) == sh.cards[sh.dealt_index + k]
\* the shoe after count calls of Shoe.deal
after_deal(sh, count) == [sh EXCEPT !.dealt_index = @ + count]

\* Shoe.cards_remaining
cards_remaining(sh) == Len(sh.cards) - sh.dealt_index

\* Shoe.penetration
shoe_penetration(sh) ==
    IF Len(sh.cards) = 0 THEN RatInt(0)
    ELSE RatNorm(Rat(sh.dealt_index, Len(sh.cards)))

\* Shoe.needs_shuffle
needs_shuffle(sh, cut_penetration) ==
    ~RatLess(shoe_penetration(sh), cut_penetration)

\* Shoe.burn_cards
burn_cards(sh, count) ==
    [sh EXCEPT !.dealt_index =
        IF @ + count < Len(sh.cards) THEN @ + count ELSE Len(sh.cards)]

-----------------------------------------------------------------------------
(* interfaces/simulator.py: BlackjackAgent and BlackjackSimulator          *)

\* BlackjackAgent.__init__: the RuleConfig of the agent's Strategy Engine
agent_rule_config(rules) ==
    [surrender_allowed |-> rules.surrender_allowed,
     deviation_threshold_margin |-> RatInt(0)]

\* BlackjackAgent.get_decision_with_context, from the metrics of the State
\* Manager.  No strategy file is part of the source tree, so the engine
\* holds its in-memory fallback table.
get_decision_with_context(cfg, metrics, h, dealer, use_deviations) ==
    decide_with_context(cfg, get_fallback_strategy,
                        create_standard_deviation_engine, h, dealer,
                        metrics.true_count, use_deviations)

\* BlackjackAgent.get_bet, from the metrics of the State Manager
get_bet(cfg, model, metrics, bankroll) ==
    compute_bet(cfg, model, metrics.true_count, bankroll, metrics.penetration)

\* BlackjackSimulator.__init__: the betting configuration when none is given
derived_betting_config(config) ==
    [DefaultBettingConfig EXCEPT !.flat_betting = (config.betting_strategy = "FLAT")]

\* SimulationResult(final_bankroll = starting_bankroll)
SimulationResult(starting_bankroll) ==
    [hands_played |-> 0, total_wagered |-> RatInt(0), total_won |-> RatInt(0),
     net_profit |-> RatInt(0), max_drawdown |-> RatInt(0),
     final_bankroll |-> starting_bankroll, hands_skipped |-> 0,
     wins |-> 0, losses |-> 0, pushes |-> 0, blackjacks |-> 0,
     surrenders |-> 0, busts |-> 0]

\* The locals of BlackjackSimulator.run at the top of its loop
run_locals(rules, seed, config, num_hands, starting_bankroll) ==
    [rules |-> rules, seed |-> seed, config |-> config,
     num_hands |-> num_hands, starting_bankroll |-> starting_bankroll,
     hand_num |-> 0, bankroll |-> starting_bankroll,
     peak_bankroll |-> starting_bankroll,
     hands_this_shoe |-> 0, hands_skipped |-> 0,
     result |-> SimulationResult(starting_bankroll)]

\* run, lines 541-549 and 567-572: the largest late-entry burn
max_burn(config, sh) ==
    (Len(sh.cards) * config.late_entry_max_pen.n) \div config.late_entry_max_pen.d

\* random.randint(0, max_burn) reads the process-wide generator, whose state
\* no part of the run fixes: any value of the range
late_entry_burns(config, sh) ==
    IF config.simulate_late_entry THEN 0..max_burn(config, sh) ELSE {0}

\* A late entry whose agent is reset as at a fresh shoe, the burn forgotten
seat_at_fresh_shoe_forgetting_burn(config, sh, s, burn) ==
    LET shuffled == shuffle(sh)
    IN  IF config.simulate_late_entry
        THEN [shoe |-> burn_cards(shuffled, burn), sm |-> reset(s, 0), burn |-> burn]
        ELSE [shoe |-> shuffled, sm |-> reset(s, 0), burn |-> 0]

\* run, lines 535-551 (and 562-573): a fresh shoe, the late-entry burn, and
\* the agent's reset
seat_at_fresh_shoe(config, sh, s, burn) ==
    LET shuffled == shuffle(sh)
    IN  IF config.simulate_late_entry
        THEN [shoe |-> burn_cards(shuffled, burn), sm |-> reset(s, burn), burn |-> burn]
        ELSE [shoe |-> shuffled, sm |-> reset(s, 0), burn |-> 0]

\* The wong-out test without the minimum-hands condition of line 559
wong_out_before_min_hands(config, metrics, hands_this_shoe) ==
    /\ config.wong_out_threshold # NoThreshold
    /\ RatLess(metrics.true_count, config.wong_out_threshold)

\* run, lines 557-560: the wong-out test
wong_out(config, metrics, hands_this_shoe) ==
    /\ config.wong_out_threshold # NoThreshold
    /\ RatLess(metrics.true_count, config.wong_out_threshold)
    /\ hands_this_shoe >= config.min_hands_per_shoe

\* run, lines 585-588: the wager from the Betting Engine's bet
wager(bet, table_min, bankroll) ==
    LET floored == IF bet <= 0 \/ bet < table_min THEN table_min ELSE bet
    IN  RatMin(RatInt(floored), bankroll)

\* run, lines 650-656: the final statistics
final_result(locals) ==
    [locals.result EXCEPT
        !.final_bankroll = locals.bankroll,
        !.net_profit = RatNorm(RatSub(locals.bankroll, locals.starting_bankroll)),
        !.hands_skipped = locals.hands_skipped]

HandResult(final_player_total, final_dealer_total, actions_taken, bet_size, payout, net_result, true_count, outcome) ==
    [final_player_total |-> final_player_total,
     final_dealer_total |-> final_dealer_total,
     actions_taken |-> actions_taken, bet_size |-> bet_size,
     payout |-> payout, net_result |-> net_result,
     true_count |-> true_count, outcome |-> outcome]

NoHandResult ==
    HandResult(0, 0, <<>>, RatInt(0), RatInt(0), RatInt(0), RatInt(0), None)

\* The locals of _play_hand before the deal
play_locals(bet, true_count) ==
    [bet |-> bet, true_count |-> true_count, player_cards |-> <<>>,
     dealer_hand_cards |-> <<>>, current_bet |-> bet,
     actions_taken |-> <<>>,
     first_decision_result |-> DecisionResult(None, None, None, RatInt(0)),
     hand_result |-> NoHandResult]

\* A deal at which the agent observes all four cards.
deal_observations_with_hole(player_cards, up_card, hole_card) ==
    <<[kind |-> "player", card |-> player_cards[1]],
      [kind |-> "player", card |-> player_cards[2]],
      [kind |-> "up", card |-> up_card],
      [kind |-> "hole", card |-> hole_card]>>
\* _play_hand, lines 679-685: the cards observed at the deal, in order
deal_observations(player_cards, up_card, hole_card) ==
    <<[kind |-> "player", card |-> player_cards[1]],
      [kind |-> "player", card |-> player_cards[2]],
      [kind |-> "up", card |-> up_card]>>

\* the cards of a sequence of observations
RECURSIVE observed_cards_of(_)
observed_cards_of(seen_cards) ==
    IF seen_cards = <<>> THEN <<>>
    ELSE <<Head(seen_cards).card>> \o observed_cards_of(Tail(seen_cards))

\* _play_hand, lines 691-723: the result of a player blackjack
blackjack_hand_result(p, rules) ==
    IF is_blackjack(from_cards(p.dealer_hand_cards))
    THEN HandResult(21, 21, <<"STAND">>, p.bet, p.bet, RatInt(0),
                    p.true_count, "push")
    ELSE LET payout == RatAdd(p.bet, RatMul(p.bet, rules.blackjack_pays))
         IN  HandResult(21, from_cards(p.dealer_hand_cards).total, <<"STAND">>,
                        p.bet, payout, RatNorm(RatSub(payout, p.bet)),
                        p.true_count, "blackjack")

\* A surrender that records no returned half of the stake
surrender_hand_result_keeping_stake(p, actions_taken) ==
    HandResult(from_cards(p.player_cards).total,
               from_cards(p.dealer_hand_cards).total, actions_taken, p.bet,
               RatInt(0), RatMul(p.bet, Rat(-1, 2)),
               p.true_count, "surrender")

\* _play_hand, lines 745-759: the result of a surrender
surrender_hand_result(p, actions_taken) ==
    HandResult(from_cards(p.player_cards).total,
               from_cards(p.dealer_hand_cards).total, actions_taken, p.bet,
               RatMul(p.bet, Rat(1, 2)), RatMul(p.bet, Rat(-1, 2)),
               p.true_count, "surrender")

\* _play_hand, lines 801-814: the result of a player bust
bust_hand_result(p, player_cards, current_bet, actions_taken) ==
    HandResult(from_cards(player_cards).total,
               from_cards(p.dealer_hand_cards).total, actions_taken,
               current_bet, RatInt(0), RatMul(current_bet, RatInt(-1)),
               p.true_count, "bust")

\* A dealer who draws on every 17, hard ones included
dealer_hits_every_17(dealer_hand, rules) ==
    /\ dealer_hand.total <= 21
    /\ dealer_hand.total <= 17

\* _play_hand, lines 823-832: the dealer draws another card
dealer_hits(dealer_hand, rules) ==
    /\ dealer_hand.total <= 21
    /\ \/ dealer_hand.total < 17
       \/ /\ dealer_hand.total = 17
          /\ dealer_hand.is_soft
          /\ ~rules.dealer_stands_soft_17

\* A settlement on the wager, whatever the current bet
settled_hand_result_on_wager(p) ==
    LET player_total == from_cards(p.player_cards).total
        dealer_total == from_cards(p.dealer_hand_cards).total
        won == dealer_total > 21 \/ player_total > dealer_total
        payout == IF won THEN RatMul(p.bet, RatInt(2))
                  ELSE IF player_total = dealer_total THEN p.bet
                  ELSE RatInt(0)
        outcome == IF won THEN "win"
                   ELSE IF player_total = dealer_total THEN "push" ELSE "loss"
    IN  HandResult(player_total, dealer_total, p.actions_taken, p.bet,
                   payout, RatNorm(RatSub(payout, p.bet)),
                   p.true_count, outcome)

\* _play_hand, lines 839-871: settlement
settled_hand_result(p) ==
    LET player_total == from_cards(p.player_cards).total
        dealer_total == from_cards(p.dealer_hand_cards).total
        won == dealer_total > 21 \/ player_total > dealer_total
        payout == IF won THEN RatMul(p.current_bet, RatInt(2))
                  ELSE IF player_total = dealer_total THEN p.current_bet
                  ELSE RatInt(0)
        outcome == IF won THEN "win"
                   ELSE IF player_total = dealer_total THEN "push" ELSE "loss"
    IN  HandResult(player_total, dealer_total, p.actions_taken, p.current_bet,
                   payout, RatNorm(RatSub(payout, p.current_bet)),
                   p.true_count, outcome)

\* _play_hand, lines 874-898: the record handed to FlightRecorder.record_hand
\* (the session and hand identifiers are left out; amounts and counts are
\* rounded to two places, kept as hundredths)
flight_record(config, sh, p, hand_result) ==
    [config_id |-> config.config_id,
     cards_remaining |-> cards_remaining(sh),
     true_count |-> round2(RatMul(p.first_decision_result.true_count, RatInt(100))),
     player_total |-> from_cards(p.player_cards).total,
     dealer_up |-> p.dealer_hand_cards[1],
     action_taken |-> p.first_decision_result.action,
     baseline_action |-> p.first_decision_result.baseline_action,
     deviation_trigger |-> p.first_decision_result.deviation_id,
     deviated |-> deviated(p.first_decision_result),
     pnl |-> round2(hand_result.net_result),
     result |-> Upper(hand_result.outcome)]

\* run, lines 598-640: the statistics after a hand
updated_locals(locals, hand_result) ==
    LET bankroll == RatAdd(locals.bankroll, hand_result.net_result)
        peak_bankroll == RatMax(locals.peak_bankroll, bankroll)
        drawdown == RatNorm(RatSub(peak_bankroll, bankroll))
        outcome == hand_result.outcome
        r == locals.result
    IN  [locals EXCEPT
            !.bankroll = bankroll,
            !.peak_bankroll = peak_bankroll,
            !.hands_this_shoe = @ + 1,
            !.hand_num = @ + 1,
            !.result = [r EXCEPT
                !.total_wagered = RatAdd(@, hand_result.bet_size),
                !.total_won = RatAdd(@, hand_result.payout),
                !.hands_played = @ + 1,
                !.wins = @ + (IF outcome = "win" THEN 1 ELSE 0),
                !.losses = @ + (IF outcome = "loss" THEN 1 ELSE 0),
                !.pushes = @ + (IF outcome = "push" THEN 1 ELSE 0),
                !.blackjacks = @ + (IF outcome = "blackjack" THEN 1 ELSE 0),
                !.surrenders = @ + (IF outcome = "surrender" THEN 1 ELSE 0),
                !.busts = @ + (IF outcome = "bust" THEN 1 ELSE 0),
                !.max_drawdown = RatMax(@, drawdown)]]

-----------------------------------------------------------------------------
(* interfaces/live_api.py: LiveSession                                     *)
(* Card strings are modelled by the cards they parse to; a string that     *)
(* does not parse is the empty sequence.  session_profit, bankroll and     *)
(* the text of exit_reason are read by no decision and are left out.       *)

\* SessionState(): dealer_up_card is <<>> for None, else the one card
SessionState ==
    [player_cards |-> <<>>, dealer_up_card |-> <<>>, hand_in_progress |-> FALSE,
     cards_observed_this_shoe |-> 0, hands_played |-> 0,
     hands_played_this_shoe |-> 0]

\* LiveDecision(action, should_exit = False, exit_reason = "")
LiveDecision(action, should_exit, exit_reason) ==
    [action |-> action, should_exit |-> should_exit, exit_reason |-> exit_reason]

\* LiveSession.__init__ and start_shoe: the RuleConfig of the Strategy Engine
live_rule_config(rules) ==
    [surrender_allowed |-> rules.surrender_allowed,
     deviation_threshold_margin |-> RatInt(0)]

\* A get_decision that gives the exit signal without the cover of a hand
get_decision_without_cover(sess, s, cfg) ==
    IF sess.player_cards = <<>> \/ sess.dealer_up_card = <<>>
    THEN LiveDecision("STAND", FALSE, "")
    ELSE LET metrics == get_metrics(s)
             action == decide(cfg, get_fallback_strategy,
                              create_standard_deviation_engine,
                              from_cards(sess.player_cards),
                              sess.dealer_up_card[1], metrics.true_count, TRUE)
         IN  IF RatLess(metrics.true_count, RatInt(-1))
             THEN LiveDecision(action, TRUE, "Wong Out")
             ELSE LiveDecision(action, FALSE, "")

\* LiveSession.get_decision.  No strategy file is part of the source tree,
\* so the engine holds its in-memory fallback table.
get_decision(sess, s, cfg) ==
    IF sess.player_cards = <<>> \/ sess.dealer_up_card = <<>>
    THEN LiveDecision("STAND", FALSE, "")
    ELSE LET metrics == get_metrics(s)
             action == decide(cfg, get_fallback_strategy,
                              create_standard_deviation_engine,
                              from_cards(sess.player_cards),
                              sess.dealer_up_card[1], metrics.true_count, TRUE)
         IN  IF RatLess(metrics.true_count, RatInt(-1))
                /\ sess.hands_played_this_shoe > 0
             THEN LiveDecision(action, TRUE, "Wong Out")
             ELSE LiveDecision(action, FALSE, "")

\* No get_decision call yet.  A call is recorded with the LiveDecision it
\* returned, the true count it read, whether it found a hand and a dealer
\* card, and the number of end_hand calls since the last start_shoe.
NoLiveDecision ==
    [made |-> FALSE, decision |-> LiveDecision("STAND", FALSE, ""),
     true_count |-> RatInt(0), in_hand |-> FALSE, ended |-> 0]

\* Ranks a hand is built from.  JACK, QUEEN and KING differ from each other
\* in no operator above (only rank equality and blackjack_value are read),
\* so JACK stands for the three; TEN and JACK keep the mixed twenty apart
\* from the pair of tens.
HandRanks == (2..10) \cup {JACK, ACE}
\* Only dealer_up.value and dealer_up.is_ace are read.
DealerRanks == (2..10) \cup {ACE}

TrueCounts == {RatInt(k) : k \in (0 - MaxNegTC)..MaxPosTC}

\* Tokens a strategy table may hold at the looked-up key: the twelve of the
\* action map and one that is no token of it.
TableTokens == {"STAND", "HIT", "DOUBLE", "SPLIT", "SURRENDER",
                "Ds", "Dh", "Rh", "Rs", "Rp", "Ph", "Pd", "XX"}

\* Tables holding one token at the hand's key, in the padded or the
\* un-padded key format, and the table with no entry at all.
TokenTablesFor(h, dealer) ==
    {<<>>}
    \cup {(generate_key(h, dealer) :> tok) : tok \in TableTokens}
    \cup {(generate_alt_key(h, dealer) :> tok) : tok \in {"STAND", "Rh"}}

\* A deviation list a user supplies (DeviationEngine.load reads any list;
\* an entry without a priority takes its position in the list as priority):
\* surrender 16 against a ten from a true count of 0, stand on it from 3.
UserDeviations == <<
    Deviation("USR_16v10_SURRENDER", "H", 16, 10, 0, ABOVE_OR_EQUAL, "SURRENDER", 0),
    Deviation("USR_16v10_STAND", "H", 16, 10, 3, ABOVE_OR_EQUAL, "STAND", 1) >>

user_deviation_engine == DeviationEngine(UserDeviations)

\* The deviation engine a call names
deviation_engine(name) ==
    IF name = "USER" THEN user_deviation_engine ELSE create_standard_deviation_engine

\* The (true count, table, deviations) triples a decision is asked for.
\* An engine with a confidence margin is asked at the whole true counts
\* within one count of zero on the in-memory fallback table.  An engine
\* without one is asked at every true count on the fallback table, at the
\* highest true count on every token table, and at the middle and the
\* highest true count on the fallback table with the user's deviations.
DecideInputs(cfg, h, dealer) ==
    {[true_count |-> tc, table |-> get_fallback_strategy,
      deviations |-> "STANDARD"] :
        tc \in IF cfg.deviation_threshold_margin # RatInt(0)
               THEN {RatInt(-1), RatInt(0), RatInt(1)} ELSE TrueCounts}
    \cup (IF cfg.deviation_threshold_margin # RatInt(0) THEN {}
          ELSE {[true_count |-> tc, table |-> t,
                 deviations |-> "STANDARD"] :
                 tc \in {RatInt(MaxPosTC)},
                 t \in TokenTablesFor(h, dealer)}
               \cup {[true_count |-> tc, table |-> get_fallback_strategy,
                       deviations |-> "USER"] :
                       tc \in {RatInt(0), RatInt(MaxPosTC)}})

\* Of those, the calls made.  With deviations off the true count reaches no
\* branch of decide_with_context, and the fallback table is asked at the two
\* extreme true counts only; token tables are tried on hands of up to three
\* cards, _validate_action telling two cards from more.
DecideAsked(in, h, use_deviations) ==
    /\ (~use_deviations /\ in.table = get_fallback_strategy
            /\ in.deviations = "STANDARD") =>
          in.true_count \in {RatInt(0 - MaxNegTC), RatInt(MaxPosTC)}
    /\ in.table # get_fallback_strategy => Len(h.cards) <= 3

NoDecision == DecisionResult(None, None, None, RatInt(0))

NoDecideCall ==
    [made |-> FALSE, table |-> <<>>, deviations |-> "STANDARD",
     true_count |-> RatInt(0), use_deviations |-> FALSE]

\* RuleConfig: the default margin 0.0 with surrender allowed or not, and a
\* confidence margin of one true count
RuleConfigs ==
    [surrender_allowed : BOOLEAN, deviation_threshold_margin : {RatInt(0)}]
    \cup {[surrender_allowed |-> TRUE, deviation_threshold_margin |-> RatInt(1)]}

-----------------------------------------------------------------------------
(* Values of the variables a specification leaves alone.                   *)

StrategyIdle ==
    /\ hand = <<>>
    /\ dealer_up = 2
    /\ rule_config = [surrender_allowed |-> TRUE,
                      deviation_threshold_margin |-> RatInt(0)]
    /\ decision = NoDecision
    /\ decide_call = NoDecideCall

NoCall ==
    [made |-> FALSE, true_count |-> RatInt(0), bankroll |-> RatInt(0),
     penetration |-> RatInt(0)]

NoAdvantageCall == [made |-> FALSE, true_count |-> RatInt(0), advantage |-> RatInt(0)]

BettingIdle ==
    /\ betting_config = DefaultBettingConfig
    /\ advantage_model = DefaultAdvantageModel
    /\ bet_call = NoCall
    /\ bet_amount = 0
    /\ advantage_call = NoAdvantageCall

StateIdle ==
    /\ state_manager = StateManager(DefaultGameRules)
    /\ reset_burn = 0

SimIdle ==
    /\ sim = run_locals(DefaultGameRules, 0, control, 0, RatInt(0))
    /\ shoe = [num_decks |-> 0, rng |-> 0, cards |-> <<>>, dealt_index |-> 0]
    /\ play = play_locals(RatInt(0), RatInt(0))
    /\ pc = "done"
    /\ observations = <<>>
    /\ flight_records = <<>>
    /\ run_no = 1
    /\ first_result = SimulationResult(RatInt(0))

LiveIdle ==
    /\ session = SessionState
    /\ live_decision = NoLiveDecision
    /\ hands_ended = 0

-----------------------------------------------------------------------------
(* The Strategy Engine under every input.                                  *)

StrategyInit ==
    /\ hand \in {<<r>> : r \in HandRanks}
    /\ dealer_up \in DealerRanks
    /\ rule_config \in RuleConfigs
    /\ decision = NoDecision
    /\ decide_call = NoDecideCall
    /\ BettingIdle
    /\ StateIdle
    /\ SimIdle
    /\ LiveIdle

\* One more card in the hand (kept in non-decreasing rank order: no operator
\* reads the order of the cards); a Hand whose total is out of range cannot
\* be constructed.  An engine with a confidence margin is asked about the
\* hands of the deal, of one or two cards.
AddCard ==
    /\ Len(hand) < MaxHandCards
    /\ rule_config.deviation_threshold_margin # RatInt(0) => Len(hand) < 2
    /\ decision = NoDecision
    /\ \E card \in HandRanks :
          /\ card >= hand[Len(hand)]
          /\ hand_is_valid(from_cards(Append(hand, card)))
          /\ hand' = Append(hand, card)
    /\ UNCHANGED <<dealer_up, rule_config, decision, decide_call, betting_vars, state_vars, sim_vars, live_vars>>

\* StrategyEngine.decide_with_context on the current hand, of one card or
\* more
Decide ==
    /\ decision = NoDecision
    /\ \E in \in DecideInputs(rule_config, from_cards(hand), dealer_up), use_deviations \in BOOLEAN :
          /\ DecideAsked(in, from_cards(hand), use_deviations)
          /\ decision' = decide_with_context(rule_config, in.table,
                              deviation_engine(in.deviations),
                              from_cards(hand), dealer_up, in.true_count, use_deviations)
          /\ decide_call' = [made |-> TRUE, table |-> in.table,
                             deviations |-> in.deviations,
                             true_count |-> in.true_count,
                             use_deviations |-> use_deviations]
    /\ UNCHANGED <<hand, dealer_up, rule_config, betting_vars, state_vars, sim_vars, live_vars>>

StrategyNext == AddCard \/ Decide

SpecStrategy == StrategyInit /\ [][StrategyNext]_vars

\* C1: whatever the hand, the dealer up-card, the true count, the rules and
\* the table, the action decide returns is never SPLIT on a hand that is not
\* a pair, never DOUBLE on a hand of more than two cards and never SURRENDER
\* on a hand of more than two cards.
C1_ActionLegalForHand ==
    decision # NoDecision =>
        /\ (decision.action = "SPLIT" => from_cards(hand).is_pair)
        /\ (decision.action = "DOUBLE" => Len(hand) <= 2)
        /\ (decision.action = "SURRENDER" => Len(hand) <= 2)

-----------------------------------------------------------------------------
(* The Betting Engine under every input: an engine is built from a         *)
(* configuration and an advantage model, and compute_bet is called on it.  *)

\* BettingConfig validates none of its fields: a maximum below the minimum
\* and a spread below 1 are accepted like any other value.
BettingConfigs ==
    {BettingConfig(kf, Dollars(10), table_max, max_spread, num_decks, flat, max_pen) :
        kf \in {Rat(1, 2), RatInt(1)},
        table_max \in {Dollars(8), Dollars(15), Dollars(1000)},
        max_spread \in {Rat(1, 2), Rat(3, 2), RatInt(12)},
        num_decks \in {1, 6, 8},
        flat \in BOOLEAN,
        max_pen \in {Rat(17, 20), Rat(1, 2)}}

\* Rules an engine is built for: the default rules (DAS, surrender, any
\* double) with S17 or H17 and blackjack paid 3:2 or 6:5, and the strictest
\* rules (H17, 6:5, no DAS, no surrender, double on 10 and 11 only).
\* BettingEngine.__init__ takes the default model (no rules) or the model
\* of the rules.
BettingRules ==
    {GameRules(6, Rat(3, 4), s17, TRUE, TRUE, FALSE, FALSE, pays) :
        s17 \in BOOLEAN, pays \in {Rat(3, 2), Rat(6, 5)}}
    \cup {GameRules(6, Rat(3, 4), FALSE, FALSE, FALSE, TRUE, FALSE, Rat(6, 5))}

AdvantageModels ==
    {DefaultAdvantageModel} \cup {from_rules(rules) : rules \in BettingRules}

\* Bankrolls: none, below the table minimum, half a cent below it, at it,
\* and above it
Bankrolls ==
    {RatInt(0), RatInt(Dollars(5)), Rat(1999, 2), RatInt(Dollars(10)),
     Rat(3003, 2), RatInt(Dollars(100)), RatInt(Dollars(1000))}

Penetrations == {RatInt(0), Rat(1, 2), Rat(17, 20), Rat(43, 50), RatInt(1)}

BettingInit ==
    /\ betting_config \in BettingConfigs
    /\ advantage_model \in AdvantageModels
    /\ bet_call = NoCall
    /\ bet_amount = 0
    /\ advantage_call = NoAdvantageCall
    /\ StrategyIdle
    /\ StateIdle
    /\ SimIdle
    /\ LiveIdle

\* BettingEngine.compute_bet(true_count, bankroll, penetration)
ComputeBet ==
    /\ ~bet_call.made
    /\ ~advantage_call.made
    /\ \E true_count \in TrueCounts, bankroll \in Bankrolls,
          penetration \in Penetrations :
          /\ bet_call' = [made |-> TRUE, true_count |-> true_count,
                          bankroll |-> bankroll, penetration |-> penetration]
          /\ bet_amount' = compute_bet(betting_config, advantage_model, true_count,
                                bankroll, penetration)
    /\ UNCHANGED <<betting_config, advantage_model, advantage_call, strategy_vars, state_vars, sim_vars, live_vars>>

\* BettingEngine.get_advantage(true_count), at the true counts of the bounds
\* and at the engine's breakeven count
GetAdvantage ==
    /\ ~bet_call.made
    /\ ~advantage_call.made
    /\ \E true_count \in TrueCounts \cup {breakeven_count(advantage_model)} :
          advantage_call' =
              [made |-> TRUE, true_count |-> true_count,
               advantage |-> estimate_advantage(advantage_model, true_count,
                                                betting_config.num_decks)]
    /\ UNCHANGED <<betting_config, advantage_model, bet_call, bet_amount, strategy_vars, state_vars, sim_vars, live_vars>>

BettingNext == ComputeBet \/ GetAdvantage

SpecBetting == BettingInit /\ [][BettingNext]_vars

\* A configuration whose maximum is not below its minimum and whose spread
\* is not below 1
LimitsOrdered(cfg) ==
    /\ cfg.table_min <= cfg.table_max
    /\ ~RatLess(cfg.max_spread, RatInt(1))

\* The bet is within the bankroll, the table maximum and the spread cap.
BetWithinCaps ==
    /\ ~RatLess(bet_call.bankroll, RatInt(bet_amount))
    /\ bet_amount <= betting_config.table_max
    /\ ~RatLess(RatMul(RatInt(betting_config.table_min), betting_config.max_spread),
                RatInt(bet_amount))

C9_FlatBetWhenAffordable ==
    (bet_call.made /\ betting_config.flat_betting) =>
        bet_amount = IF ~RatLess(bet_call.bankroll, RatInt(betting_config.table_min))
              THEN betting_config.table_min ELSE 0

\* C9 (as stated): with flat betting on, compute_bet returns exactly
\* table_min for every true count, every bankroll and every penetration.
C9_FlatBetAlways ==
    (bet_call.made /\ betting_config.flat_betting) =>
        bet_amount = betting_config.table_min

\* C9: a flat bet at the highest true count with a bankroll that would
\* size a larger bet.
C9_Witness ==
    /\ bet_call.made
    /\ betting_config.flat_betting
    /\ bet_call.true_count = RatInt(MaxPosTC)
    /\ bet_call.bankroll = RatInt(Dollars(1000))
    /\ bet_amount = betting_config.table_min
    /\ kelly_sized_bet(betting_config, advantage_model, bet_call.true_count,
                       bet_call.bankroll) > betting_config.table_min

\* C10: with flat betting off and bankroll >= table_min, compute_bet
\* returns table_min at every penetration above max_betting_penetration,
\* and at a penetration equal to it the amount it returns at penetration 0.
C10_CutoffStrictlyAbove ==
    (bet_call.made /\ ~betting_config.flat_betting
        /\ ~RatLess(bet_call.bankroll, RatInt(betting_config.table_min))) =>
        /\ RatLess(betting_config.max_betting_penetration, bet_call.penetration)
              => bet_amount = betting_config.table_min
        /\ RatEq(betting_config.max_betting_penetration, bet_call.penetration)
              => bet_amount = compute_bet(betting_config, advantage_model,
                                   bet_call.true_count, bet_call.bankroll, RatInt(0))

\* C10: a bet at the cutoff penetration that is sized above the minimum.
C10_Witness ==
    /\ bet_call.made
    /\ ~betting_config.flat_betting
    /\ RatEq(betting_config.max_betting_penetration, bet_call.penetration)
    /\ bet_amount > betting_config.table_min

-----------------------------------------------------------------------------
(* The State Manager under every sequence of resets and observations.      *)

\* Ranks observed: the ends of the three Hi-Lo classes and a face card.
ObservedRanks == {2, 6, 7, 9, TEN, KING, ACE}

\* observe() is given one card or two.
ObservedLists ==
    {<<r>> : r \in ObservedRanks} \cup {<<r, q>> : r \in ObservedRanks, q \in {2, ACE}}

StateRules ==
    {GameRules(1, Rat(3, 4), TRUE, TRUE, TRUE, FALSE, FALSE, Rat(3, 2))}

\* Burn counts: small ones, and ones that leave about half a deck and none.
BurnCounts(rules) ==
    (0..MaxBurn) \cup {total_cards(rules) - 27, total_cards(rules) - 25,
                       total_cards(rules)}

StateInit ==
    /\ state_manager \in {StateManager(rules) : rules \in StateRules}
    /\ reset_burn = 0
    /\ StrategyIdle
    /\ BettingIdle
    /\ SimIdle
    /\ LiveIdle

\* StateManager.observe(cards)
Observe ==
    /\ \E cards \in ObservedLists :
          /\ Len(state_manager.observed_cards) + Len(cards) <= MaxObserved
          /\ state_manager' = observe(state_manager, cards)
    /\ UNCHANGED <<reset_burn, strategy_vars, betting_vars, sim_vars, live_vars>>

\* StateManager.reset(burn_count = k)
Reset ==
    /\ \E k \in BurnCounts(state_manager.rules) :
          /\ state_manager' = reset(state_manager, k)
          /\ reset_burn' = k
    /\ UNCHANGED <<strategy_vars, betting_vars, sim_vars, live_vars>>

StateNext == Observe \/ Reset

SpecState == StateInit /\ [][StateNext]_vars

\* The Hi-Lo tag of a rank as the claim states it
C5_Tag(rank) ==
    IF rank \in 2..6 THEN 1 ELSE IF rank \in 7..9 THEN 0 ELSE -1

RECURSIVE C5_SumTags(_)
C5_SumTags(cards) ==
    IF cards = <<>> THEN 0 ELSE C5_Tag(Head(cards)) + C5_SumTags(Tail(cards))

\* C5: after reset(burn_count = k) and any observations, running_count is
\* the sum of the Hi-Lo tags of the observed cards, cards_seen is k plus
\* their number, and the snapshot's decks_remaining is at least 0.5.
C5_CountMatchesObservedCards ==
    /\ state_manager.running_count = C5_SumTags(state_manager.observed_cards)
    /\ state_manager.cards_seen = reset_burn + Len(state_manager.observed_cards)
    /\ ~RatLess(get_metrics(state_manager).decks_remaining, Rat(1, 2))

\* C5: cards observed after a late reset, with the decks clamped at 0.5.
C5_Witness ==
    /\ reset_burn > MaxBurn
    /\ Len(state_manager.observed_cards) >= 2
    /\ state_manager.running_count < 0
    /\ get_metrics(state_manager).decks_remaining = Rat(1, 2)
    /\ total_cards(state_manager.rules) - state_manager.cards_seen < 26

-----------------------------------------------------------------------------
(* A live session under every sequence of its calls.                       *)

\* The rules a session is built with or a shoe is started with: a single
\* deck, where one ten more than small cards puts the true count below -1,
\* and the default six decks, where it does not.
LiveRules ==
    {GameRules(1, Rat(3, 4), TRUE, TRUE, FALSE, FALSE, FALSE, Rat(3, 2)),
     DefaultGameRules}

\* The card that is put in alone: a ten-valued one, which lowers the count.
LiveRanks == {KING}

\* The player's cards of start_hand; <<>> is a string that does not parse.
LiveHands == {<<>>, <<TEN, 6>>}

\* The dealer's card of start_hand; <<>> is a string that does not parse.
LiveDealerCards == {<<>>, <<TEN>>}

\* LiveSession(rules)
LiveInit ==
    /\ \E rules \in LiveRules :
          /\ state_manager = StateManager(rules)
          /\ rule_config = live_rule_config(rules)
    /\ reset_burn = 0
    /\ session = SessionState
    /\ live_decision = NoLiveDecision
    /\ hands_ended = 0
    /\ hand = <<>>
    /\ dealer_up = 2
    /\ decision = NoDecision
    /\ decide_call = NoDecideCall
    /\ BettingIdle
    /\ SimIdle

\* LiveSession.start_shoe(rules); <<>> is rules = None
StartShoe ==
    /\ \E rules \in {<<>>} \cup {<<r>> : r \in LiveRules} :
          IF rules # <<>>
          THEN /\ state_manager' = StateManager(rules[1])
               /\ rule_config' = live_rule_config(rules[1])
          ELSE /\ state_manager' = reset(state_manager, 0)
               /\ UNCHANGED rule_config
    /\ session' = [session EXCEPT !.cards_observed_this_shoe = 0,
                                  !.hands_played_this_shoe = 0]
    /\ hands_ended' = 0
    /\ UNCHANGED <<live_decision, reset_burn, hand, dealer_up, decision,
                   decide_call, betting_vars, sim_vars>>

\* LiveSession.input_card(card_str), of a string that parses
InputCard ==
    /\ session.cards_observed_this_shoe < MaxLiveCards
    /\ \E card \in LiveRanks :
          /\ state_manager' = observe_card(state_manager, card)
          /\ session' = [session EXCEPT !.cards_observed_this_shoe = @ + 1]
    /\ UNCHANGED <<live_decision, hands_ended, reset_burn, strategy_vars,
                   betting_vars, sim_vars>>

\* LiveSession.input_cards(cards_str), of two cards
InputCards ==
    /\ session.cards_observed_this_shoe + 2 <= MaxLiveCards
    /\ \E cards \in {<<KING, TEN>>} :
          /\ state_manager' =
                observe_card(observe_card(state_manager, cards[1]), cards[2])
          /\ session' = [session EXCEPT !.cards_observed_this_shoe = @ + 2]
    /\ UNCHANGED <<live_decision, hands_ended, reset_burn, strategy_vars,
                   betting_vars, sim_vars>>

\* LiveSession.start_hand(player_cards, dealer_up)
StartHand ==
    /\ session.cards_observed_this_shoe + 3 <= MaxLiveCards
    /\ \E p_cards \in LiveHands, d_card \in LiveDealerCards :
          IF p_cards = <<>> \/ d_card = <<>>
          THEN UNCHANGED <<state_manager, session>>
          ELSE /\ state_manager' = observe(state_manager, p_cards \o d_card)
               /\ session' =
                     [session EXCEPT
                         !.cards_observed_this_shoe = @ + Len(p_cards) + 1,
                         !.player_cards = p_cards,
                         !.dealer_up_card = d_card,
                         !.hand_in_progress = TRUE]
    /\ UNCHANGED <<live_decision, hands_ended, reset_burn, strategy_vars,
                   betting_vars, sim_vars>>

\* LiveSession.add_player_card(card_str), of a string that parses.  A card
\* is added while Hand.from_cards accepts the cards.
AddPlayerCard ==
    /\ session.cards_observed_this_shoe < MaxLiveCards
    /\ \E card \in LiveRanks :
          /\ hand_is_valid(from_cards(Append(session.player_cards, card)))
          /\ state_manager' = observe_card(state_manager, card)
          /\ session' = [session EXCEPT !.cards_observed_this_shoe = @ + 1,
                                        !.player_cards = Append(@, card)]
    /\ UNCHANGED <<live_decision, hands_ended, reset_burn, strategy_vars,
                   betting_vars, sim_vars>>

\* LiveSession.end_hand(result)
EndHand ==
    /\ session.hands_played < MaxLiveHands
    /\ session' = [session EXCEPT !.hand_in_progress = FALSE,
                                  !.player_cards = <<>>,
                                  !.dealer_up_card = <<>>,
                                  !.hands_played = @ + 1,
                                  !.hands_played_this_shoe = @ + 1]
    /\ hands_ended' = hands_ended + 1
    /\ UNCHANGED <<live_decision, state_vars, strategy_vars, betting_vars,
                   sim_vars>>

\* LiveSession.get_decision()
GetDecision ==
    /\ live_decision' =
          [made |-> TRUE,
           decision |-> get_decision(session, state_manager, rule_config),
           true_count |-> get_metrics(state_manager).true_count,
           in_hand |-> session.player_cards # <<>> /\ session.dealer_up_card # <<>>,
           ended |-> hands_ended]
    /\ UNCHANGED <<session, hands_ended, state_vars, strategy_vars,
                   betting_vars, sim_vars>>

LiveNext ==
    \/ StartShoe
    \/ InputCard
    \/ InputCards
    \/ StartHand
    \/ AddPlayerCard
    \/ EndHand
    \/ GetDecision

SpecLive == LiveInit /\ [][LiveNext]_vars


-----------------------------------------------------------------------------
(* The simulation driver: BlackjackSimulator.run and _play_hand.           *)

\* Single-deck tables: one reshuffled at three quarters of the shoe, one
\* reshuffled after a tenth of it (so that a run of MaxHands hands meets a
\* fresh shoe)
SimRules ==
    {GameRules(1, Rat(3, 4), TRUE, TRUE, TRUE, FALSE, FALSE, Rat(3, 2)),
     GameRules(1, Rat(1, 10), FALSE, TRUE, FALSE, FALSE, FALSE, Rat(6, 5))}

\* The four ablation configurations, and configurations with logging, with
\* wonging and with late entry
SimConfigs ==
    {control, full_engine, flat_with_deviations, kelly_no_deviations,
     SimulatorConfig("B1_S2_NOCOUNT", FALSE, TRUE, "KELLY", TRUE, NoThreshold, 0, FALSE, Rat(1, 2)),
     SimulatorConfig("B0_S2_LOG", TRUE, TRUE, "FLAT", TRUE, NoThreshold, 0, FALSE, Rat(1, 2)),
     SimulatorConfig("WONG", TRUE, TRUE, "KELLY", TRUE, RatInt(1), 1, FALSE, Rat(1, 2)),
     SimulatorConfig("WONG_NEG", TRUE, FALSE, "FLAT", FALSE, RatInt(-1), 0, TRUE, Rat(1, 40)),
     SimulatorConfig("LATE", TRUE, TRUE, "FLAT", FALSE, NoThreshold, 0, TRUE, Rat(1, 40))}

\* A low-stakes table played at full Kelly
LowStakesBettingConfig ==
    BettingConfig(RatInt(1), Dollars(1), Dollars(100), RatInt(12), 6, FALSE, Rat(17, 20))

\* The betting_config argument of BlackjackSimulator: given, or None
SimBettingConfigs(config) ==
    {derived_betting_config(config), LowStakesBettingConfig}

StartingBankrolls == {RatInt(Dollars(15)), RatInt(Dollars(200))}

\* BlackjackSimulator.__init__ followed by the first lines of run
SimStart(rules, seed, config, cfg, num_hands, starting_bankroll) ==
    /\ sim' = run_locals(rules, seed, config, num_hands, starting_bankroll)
    /\ shoe' = Shoe(rules.num_decks, seed)
    /\ state_manager' = StateManager(rules)
    /\ reset_burn' = 0
    /\ rule_config' = agent_rule_config(rules)
    /\ betting_config' = cfg
    /\ advantage_model' = from_rules(rules)
    /\ bet_call' = NoCall
    /\ bet_amount' = 0
    /\ advantage_call' = NoAdvantageCall
    /\ play' = play_locals(RatInt(0), RatInt(0))
    /\ pc' = "loop"
    /\ observations' = <<>>
    /\ flight_records' = <<>>

\* A configuration that sits down as deep as 95% into the shoe
late_entry_deep ==
    SimulatorConfig("LATE_DEEP", TRUE, TRUE, "FLAT", FALSE, NoThreshold, 0, TRUE, Rat(19, 20))

\* The simulators that are built and run: every combination of the rules,
\* seeds, configurations and bankrolls above for MaxHands hands, two hands
\* of the deep late entry behind an early cut card, and a seed that deals
\* a hand the Fab 4 surrender
SimSetups ==
    {[rules |-> rules, seed |-> seed, config |-> config, num_hands |-> MaxHands,
      starting_bankroll |-> starting_bankroll] :
        rules \in SimRules, seed \in 1..NumSeeds, config \in SimConfigs,
        starting_bankroll \in StartingBankrolls}
    \cup {[rules |-> GameRules(1, Rat(1, 10), FALSE, TRUE, FALSE, FALSE, FALSE, Rat(6, 5)),
            seed |-> 1, config |-> late_entry_deep, num_hands |-> 2,
            starting_bankroll |-> RatInt(Dollars(200))],
           [rules |-> GameRules(1, Rat(3, 4), TRUE, TRUE, TRUE, FALSE, FALSE, Rat(3, 2)),
            seed |-> 32, config |-> full_engine, num_hands |-> MaxHands,
            starting_bankroll |-> RatInt(Dollars(200))]}

Init ==
    /\ \E setup \in SimSetups :
          \E cfg \in SimBettingConfigs(setup.config) :
             /\ sim = run_locals(setup.rules, setup.seed, setup.config,
                                 setup.num_hands, setup.starting_bankroll)
             /\ shoe = Shoe(setup.rules.num_decks, setup.seed)
             /\ state_manager = StateManager(setup.rules)
             /\ rule_config = agent_rule_config(setup.rules)
             /\ betting_config = cfg
             /\ advantage_model = from_rules(setup.rules)
    /\ reset_burn = 0
    /\ bet_call = NoCall
    /\ bet_amount = 0
    /\ advantage_call = NoAdvantageCall
    /\ play = play_locals(RatInt(0), RatInt(0))
    /\ pc = "loop"
    /\ observations = <<>>
    /\ flight_records = <<>>
    /\ run_no = 1
    /\ first_result = SimulationResult(RatInt(0))
    /\ hand = <<>>
    /\ dealer_up = 2
    /\ decision = NoDecision
    /\ decide_call = NoDecideCall
    /\ LiveIdle

\* run, lines 533-595: one pass of the loop up to the call of _play_hand.
\* (A value that is read several times is bound by a quantifier over a
\* one-element set, which evaluates it once.)
NextHand ==
    /\ pc = "loop"
    /\ sim.hand_num < sim.num_hands
    /\ \E shuffle_due \in {needs_shuffle(shoe, sim.rules.penetration)} :
       \E burn \in (IF shuffle_due THEN late_entry_burns(sim.config, shoe) ELSE {0}) :
       \E seated \in {IF shuffle_due
                      THEN seat_at_fresh_shoe(sim.config, shoe, state_manager, burn)
                      ELSE [shoe |-> shoe, sm |-> state_manager, burn |-> reset_burn]} :
       \E metrics \in {get_metrics(seated.sm)} :
       LET hands_this_shoe == IF shuffle_due THEN 0 ELSE sim.hands_this_shoe
       IN  IF wong_out(sim.config, metrics, hands_this_shoe)
           THEN \E hop_burn \in late_entry_burns(sim.config, seated.shoe) :
                \E hopped \in {seat_at_fresh_shoe(sim.config, seated.shoe, seated.sm, hop_burn)} :
                    /\ sim' = [sim EXCEPT !.hands_skipped = @ + 1,
                                          !.hands_this_shoe = 0,
                                          !.hand_num = @ + 1]
                    /\ shoe' = hopped.shoe
                    /\ state_manager' = hopped.sm
                    /\ reset_burn' = hopped.burn
                    /\ UNCHANGED <<bet_call, bet_amount, play, pc>>
           ELSE \E computed \in {get_bet(betting_config, advantage_model, metrics, sim.bankroll)} :
                \E staked \in {wager(computed, betting_config.table_min, sim.bankroll)} :
                    /\ shoe' = seated.shoe
                    /\ state_manager' = seated.sm
                    /\ reset_burn' = seated.burn
                    /\ bet_call' = [made |-> TRUE, true_count |-> metrics.true_count,
                                    bankroll |-> sim.bankroll,
                                    penetration |-> metrics.penetration]
                    /\ bet_amount' = computed
                    /\ IF staked.n <= 0
                       THEN /\ sim' = [sim EXCEPT !.hands_this_shoe = hands_this_shoe,
                                                  !.result = final_result(sim)]
                            /\ pc' = "done"
                            /\ UNCHANGED play
                       ELSE /\ sim' = [sim EXCEPT !.hands_this_shoe = hands_this_shoe]
                            /\ pc' = "deal"
                            /\ play' = play_locals(staked,
                                          IF sim.config.use_counting
                                          THEN metrics.true_count ELSE RatInt(0))
    /\ observations' = <<>>
    /\ UNCHANGED <<live_vars, strategy_vars, betting_config, advantage_model, advantage_call,
                   flight_records, run_no, first_result>>

\* run, lines 649-667: the loop has run num_hands times
Finish ==
    /\ pc = "loop"
    /\ sim.hand_num = sim.num_hands
    /\ sim' = [sim EXCEPT !.result = final_result(sim)]
    /\ pc' = "done"
    /\ UNCHANGED <<live_vars, strategy_vars, betting_vars, state_vars, shoe, play,
                   observations, flight_records, run_no, first_result>>

\* _play_hand, lines 678-723: the deal, and the settlement of a player
\* blackjack
Deal ==
    /\ pc = "deal"
    /\ IF ~can_deal(shoe, 4)
       THEN /\ pc' = "error"
            /\ UNCHANGED <<shoe, play, observations, state_manager>>
       ELSE LET player_cards == <<dealt_card(shoe, 1), dealt_card(shoe, 2)>>
                up_card == dealt_card(shoe, 3)
                hole_card == dealt_card(shoe, 4)
                seen == deal_observations(player_cards, up_card, hole_card)
                dealt == [play EXCEPT !.player_cards = player_cards,
                                      !.dealer_hand_cards = <<up_card, hole_card>>]
            IN  /\ shoe' = after_deal(shoe, 4)
                /\ IF is_blackjack(from_cards(player_cards))
                   THEN /\ observations' = Append(seen, [kind |-> "hole", card |-> hole_card])
                        /\ state_manager' = observe_card(observe(state_manager, observed_cards_of(seen)), hole_card)
                        /\ play' = [dealt EXCEPT !.hand_result = blackjack_hand_result(dealt, sim.rules)]
                        /\ pc' = "update"
                   ELSE /\ observations' = seen
                        /\ state_manager' = observe(state_manager, observed_cards_of(seen))
                        /\ play' = dealt
                        /\ pc' = "player"
    /\ UNCHANGED <<live_vars, strategy_vars, betting_vars, reset_burn, sim, flight_records,
                   run_no, first_result>>

\* _play_hand, lines 730-814: one pass of the player's loop; a surrender and
\* a bust end the hand
PlayerDecision ==
    /\ pc = "player"
    /\ \E metrics \in {get_metrics(state_manager)} :
       \E decision_result \in
              {get_decision_with_context(rule_config, metrics,
                                         from_cards(play.player_cards),
                                         play.dealer_hand_cards[1],
                                         sim.config.use_deviations)} :
       LET action == decision_result.action
           actions_taken == Append(play.actions_taken, action)
           hole_card == play.dealer_hand_cards[2]
           asked == [play EXCEPT
                        !.actions_taken = actions_taken,
                        !.first_decision_result =
                            IF play.actions_taken = <<>> THEN decision_result ELSE @]
           new_card == dealt_card(shoe, 1)
           player_cards == Append(play.player_cards, new_card)
           current_bet == IF action = "DOUBLE" THEN RatMul(play.bet, RatInt(2))
                          ELSE play.current_bet
           drawn == [asked EXCEPT !.player_cards = player_cards,
                                  !.current_bet = current_bet]
       IN  IF action = "SURRENDER"
           THEN /\ state_manager' = observe_card(state_manager, hole_card)
                /\ observations' = Append(observations, [kind |-> "hole", card |-> hole_card])
                /\ play' = [asked EXCEPT !.hand_result = surrender_hand_result(play, actions_taken)]
                /\ pc' = "update"
                /\ UNCHANGED shoe
           ELSE IF action \in {"HIT", "DOUBLE", "SPLIT"}
           THEN IF ~can_deal(shoe, 1)
                THEN /\ pc' = "error"
                     /\ play' = [asked EXCEPT !.current_bet = current_bet]
                     /\ UNCHANGED <<state_manager, observations, shoe>>
                ELSE /\ shoe' = after_deal(shoe, 1)
                     /\ IF from_cards(player_cards).total > 21
                        THEN /\ state_manager' = observe_card(observe_card(state_manager, new_card), hole_card)
                             /\ observations' = observations \o
                                    <<[kind |-> "draw", card |-> new_card],
                                      [kind |-> "hole", card |-> hole_card]>>
                             /\ play' = [drawn EXCEPT !.hand_result =
                                            bust_hand_result(play, player_cards, current_bet, actions_taken)]
                             /\ pc' = "update"
                        ELSE /\ state_manager' = observe_card(state_manager, new_card)
                             /\ observations' = Append(observations, [kind |-> "draw", card |-> new_card])
                             /\ play' = drawn
                             /\ pc' = IF action = "DOUBLE" THEN "dealer" ELSE "player"
           ELSE /\ play' = asked
                /\ pc' = "dealer"
                /\ UNCHANGED <<state_manager, observations, shoe>>
    /\ UNCHANGED <<live_vars, strategy_vars, betting_vars, reset_burn, sim, flight_records,
                   run_no, first_result>>

\* _play_hand, lines 816-819: the dealer's turn begins, the hole card is
\* revealed
DealerReveal ==
    /\ pc = "dealer"
    /\ state_manager' = observe_card(state_manager, play.dealer_hand_cards[2])
    /\ observations' = Append(observations, [kind |-> "hole", card |-> play.dealer_hand_cards[2]])
    /\ pc' = "dealer_play"
    /\ UNCHANGED <<live_vars, strategy_vars, betting_vars, reset_burn, sim, shoe, play,
                   flight_records, run_no, first_result>>

\* _play_hand, lines 822-837: the dealer draws a card
DealerDraw ==
    /\ pc = "dealer_play"
    /\ dealer_hits(from_cards(play.dealer_hand_cards), sim.rules)
    /\ IF ~can_deal(shoe, 1)
       THEN /\ pc' = "error"
            /\ UNCHANGED <<shoe, state_manager, observations, play>>
       ELSE /\ shoe' = after_deal(shoe, 1)
            /\ state_manager' = observe_card(state_manager, dealt_card(shoe, 1))
            /\ observations' = Append(observations, [kind |-> "dealer", card |-> dealt_card(shoe, 1)])
            /\ play' = [play EXCEPT !.dealer_hand_cards = Append(@, dealt_card(shoe, 1))]
            /\ pc' = "dealer_play"
    /\ UNCHANGED <<live_vars, strategy_vars, betting_vars, reset_burn, sim, flight_records,
                   run_no, first_result>>

\* _play_hand, lines 839-900: the dealer is done; settlement and the flight
\* record
Settle ==
    /\ pc = "dealer_play"
    /\ ~dealer_hits(from_cards(play.dealer_hand_cards), sim.rules)
    /\ play' = [play EXCEPT !.hand_result = settled_hand_result(play)]
    /\ flight_records' =
          IF sim.config.log_json
          THEN Append(flight_records,
                      flight_record(sim.config, shoe, play, settled_hand_result(play)))
          ELSE flight_records
    /\ pc' = "update"
    /\ UNCHANGED <<live_vars, strategy_vars, betting_vars, state_vars, sim, shoe,
                   observations, run_no, first_result>>

\* run, lines 597-640: _play_hand has returned
UpdateStats ==
    /\ pc = "update"
    /\ sim' = updated_locals(sim, play.hand_result)
    /\ pc' = "loop"
    /\ UNCHANGED <<live_vars, strategy_vars, betting_vars, state_vars, shoe, play,
                   observations, flight_records, run_no, first_result>>

\* A second simulator is built from the same rules, betting configuration,
\* seed and configuration, and run for the same number of hands
Rerun ==
    /\ pc = "done"
    /\ run_no = 1
    /\ run_no' = 2
    /\ first_result' = sim.result
    /\ SimStart(sim.rules, sim.seed, sim.config, betting_config, sim.num_hands,
                sim.starting_bankroll)
    /\ UNCHANGED <<hand, dealer_up, decision, decide_call, live_vars>>

Next ==
    \/ NextHand
    \/ Finish
    \/ Deal
    \/ PlayerDecision
    \/ DealerReveal
    \/ DealerDraw
    \/ Settle
    \/ UpdateStats
    \/ Rerun

Spec == Init /\ [][Next]_vars

-----------------------------------------------------------------------------
(* Properties of the simulation driver.                                    *)

\* A hand is being played: between the call of _play_hand and the update of
\* the statistics with its result
HandInProgress == pc \in {"deal", "player", "dealer", "dealer_play", "update"}

\* C3: in a run with use_counting = false and KELLY betting the amount the
\* Betting Engine returns for a wager is the amount it returns at a true
\* count of zero for the same bankroll and penetration, whatever the real
\* count of the shoe.
C3_BetAtZeroCountWithoutCounting ==
    (/\ ~sim.config.use_counting
     /\ sim.config.betting_strategy = "KELLY"
     /\ bet_call.made) =>
        bet_amount = compute_bet(betting_config, advantage_model, RatInt(0),
                                 bet_call.bankroll, bet_call.penetration)

\* C4: no hand is played with a wager below table_min: once the bankroll is
\* below table_min the run stops before another hand is dealt.
C4_NoWagerBelowTableMin ==
    HandInProgress => ~RatLess(play.bet, RatInt(betting_config.table_min))

\* The kinds of a sequence of observations
RECURSIVE C6_KindsOf(_)
C6_KindsOf(seen_cards) ==
    IF seen_cards = <<>> THEN <<>>
    ELSE <<Head(seen_cards).kind>> \o C6_KindsOf(Tail(seen_cards))

\* The place of a kind of observation in the order of a hand
C6_Stage(kind) ==
    CASE kind = "player" -> 1
      [] kind = "up" -> 2
      [] kind = "draw" -> 3
      [] kind = "hole" -> 4
      [] kind = "dealer" -> 5

\* The last Len(observations) cards the State Manager holds
C6_LastObserved ==
    SubSeq(state_manager.observed_cards,
           Len(state_manager.observed_cards) - Len(observations) + 1,
           Len(state_manager.observed_cards))

\* C6: within a hand the State Manager observes both initial player cards,
\* then the dealer up-card, then each player draw, then the hole card, then
\* each dealer draw, and the hole card is not observed while the player can
\* still be asked for a decision.
C6_ObservationOrder ==
    HandInProgress =>
        LET kinds == C6_KindsOf(observations)
        IN  /\ Len(state_manager.observed_cards) >= Len(observations)
            /\ C6_LastObserved = observed_cards_of(observations)
            /\ \A i, j \in 1..Len(kinds) :
                  i < j => C6_Stage(kinds[i]) <= C6_Stage(kinds[j])
            /\ pc # "deal" =>
                  /\ Len(kinds) >= 3
                  /\ SubSeq(kinds, 1, 3) = <<"player", "player", "up">>
                  /\ observations[1].card = play.player_cards[1]
                  /\ observations[2].card = play.player_cards[2]
                  /\ observations[3].card = play.dealer_hand_cards[1]
                  /\ Cardinality({i \in 1..Len(kinds) : kinds[i] \in {"player", "up"}}) = 3
            /\ Cardinality({i \in 1..Len(kinds) : kinds[i] = "hole"}) <= 1
            /\ \A i \in 1..Len(kinds) :
                  kinds[i] = "hole" => observations[i].card = play.dealer_hand_cards[2]
            /\ pc = "player" => \A i \in 1..Len(kinds) : kinds[i] # "hole"
            /\ pc \in {"dealer_play", "update"} =>
                  Cardinality({i \in 1..Len(kinds) : kinds[i] = "hole"}) = 1

\* C6 witness: a hand in which the player drew, the hole card was revealed
\* and the dealer drew
C6_Witness ==
    /\ pc = "update"
    /\ \E i, j, k \in 1..Len(observations) :
          /\ i < j
          /\ j < k
          /\ observations[i].kind = "draw"
          /\ observations[j].kind = "hole"
          /\ observations[k].kind = "dealer"

\* C7: with flight recording enabled, one record has been emitted for every
\* hand settled so far, whatever its outcome.
C7_OneRecordPerSettledHand ==
    (sim.config.log_json /\ pc \in {"loop", "done"}) =>
        Len(flight_records) = sim.result.hands_played

\* C8: a second run with the same seed and the same configuration ends with
\* the statistics of the first.
C8_SameSeedSameStatistics ==
    (run_no = 2 /\ pc = "done") => sim.result = first_result

-----------------------------------------------------------------------------
(* Properties of the Strategy Engine (SpecStrategy).                       *)

\* The hand and the baseline action of the recorded call
called_hand == from_cards(hand)
called_baseline == get_baseline_action(decide_call.table, called_hand, dealer_up)

\* C11: when decide_with_context is called with use_deviations false, the
\* action of the result is the baseline action of the table (or of the
\* fallback chart) and the deviation id is none, for every hand, dealer
\* up-card and true count, a deviation's index being reached or not.
C11_NoDeviationWhenDisabled ==
    (decide_call.made /\ ~decide_call.use_deviations) =>
        /\ decision.action = decision.baseline_action
        /\ decision.baseline_action = called_baseline
        /\ decision.deviation_id = None

\* A call with use_deviations false on a hand whose deviation is triggered
\* at the call's true count and differs from the baseline action.
C11_Witness ==
    /\ decide_call.made
    /\ ~decide_call.use_deviations
    /\ check_deviation(deviation_engine(decide_call.deviations), called_hand, dealer_up,
                       decide_call.true_count) \notin {None, called_baseline}

\* The key the deviation index is read at for the recorded call's hand
called_index_key ==
    index_key(hand_type(called_hand),
              IF called_hand.is_pair THEN pair_value(called_hand) ELSE called_hand.total,
              dealer_value_of(dealer_up))

\* Some SURRENDER deviation filed under the hand's key has its count
\* condition met at the call's true count
C13_SurrenderTriggered ==
    LET devs == deviation_engine(decide_call.deviations)
    IN  \E i \in 1..Len(devs) :
            /\ devs[i].key = called_index_key
            /\ devs[i].action = "SURRENDER"
            /\ is_triggered(devs[i], decide_call.true_count)

\* C13: with deviations enabled, surrender allowed and a two-card hand,
\* decide returns SURRENDER whenever a SURRENDER deviation indexed for the
\* hand has its count condition met, for the standard deviation set and for
\* a user-supplied one.
C13_SurrenderDeviationFirst ==
    (/\ decide_call.made
     /\ decide_call.use_deviations
     /\ rule_config.surrender_allowed
     /\ Len(hand) = 2
     /\ C13_SurrenderTriggered) => decision.action = "SURRENDER"

\* The token the recorded call's table holds at the hand's key
called_token == table_get(decide_call.table, generate_key(called_hand, dealer_up))

\* What the conditional tokens stand for: doubling and surrender are legal
\* on a two-card hand (surrender when the rules allow it); whether doubling
\* after a split is allowed is left open, so Ph and Pd may resolve either way
C14_Resolutions ==
    LET double_legal == Len(hand) = 2
        surrender_legal == rule_config.surrender_allowed /\ Len(hand) = 2
    IN  [Dh |-> {IF double_legal THEN "DOUBLE" ELSE "HIT"},
         Ds |-> {IF double_legal THEN "DOUBLE" ELSE "STAND"},
         Rh |-> {IF surrender_legal THEN "SURRENDER" ELSE "HIT"},
         Rs |-> {IF surrender_legal THEN "SURRENDER" ELSE "STAND"},
         Rp |-> {IF surrender_legal THEN "SURRENDER" ELSE "SPLIT"},
         Ph |-> {"SPLIT", "HIT"},
         Pd |-> {"SPLIT", "DOUBLE"}]

\* C14: a conditional token at the hand's key resolves against the rules
\* and the hand: Dh to DOUBLE when doubling is legal and HIT otherwise, Ds
\* to DOUBLE or STAND, Rh/Rs/Rp to SURRENDER when surrender is legal and
\* HIT/STAND/SPLIT otherwise, Ph/Pd to SPLIT or HIT/DOUBLE.
C14_ConditionalTokensResolved ==
    (decide_call.made /\ called_token \in DOMAIN C14_Resolutions) =>
        decision.baseline_action \in C14_Resolutions[called_token]

\* The table of the recorded call has no entry for the hand under either key
\* format, or holds a token the action map does not know
C15_NoUsableEntry ==
    LET alt_token == table_get(decide_call.table, generate_alt_key(called_hand, dealer_up))
        token == IF called_token = None THEN alt_token ELSE called_token
    IN  token = None \/ Upper(token) \notin DOMAIN action_map

RECURSIVE C19_AcesLowSum(_)
C19_AcesLowSum(cards) ==
    IF cards = <<>> THEN 0
    ELSE (IF is_ace(Head(cards)) THEN 1 ELSE blackjack_value(Head(cards)))
         + C19_AcesLowSum(Tail(cards))

\* The numbers of Aces that can be counted as 11 without passing 21
C19_ElevensWithin21(cards) ==
    {k \in 0..CountAces(cards) : C19_AcesLowSum(cards) + 10 * k <= 21}

\* C19: the total of Hand.from_cards is the highest value not above 21 that
\* counting each Ace as 1 or 11 gives, when there is one, and the sum with
\* every Ace as 1 otherwise; is_soft holds exactly when an Ace counts as 11
\* in that total.
C19_BestTotal ==
    LET h == from_cards(hand)
        low == C19_AcesLowSum(hand)
        fits == C19_ElevensWithin21(hand)
        elevens == IF fits = {} THEN 0
                   ELSE CHOOSE k \in fits : \A other \in fits : other <= k
    IN  /\ h.total = low + 10 * elevens
        /\ h.is_soft <=> elevens > 0

\* A hand of three cards with two Aces, one of them counted as 11.
C19_Witness ==
    /\ Len(hand) = 3
    /\ CountAces(hand) = 2
    /\ from_cards(hand).is_soft
    /\ from_cards(hand).total = C19_AcesLowSum(hand) + 10


\* The deviations of the recorded call's engine filed under the hand's key
called_deviations ==
    LET devs == deviation_engine(decide_call.deviations)
    IN  {devs[i] : i \in {j \in 1..Len(devs) : devs[j].key = called_index_key}}

\* The count condition of a deviation under a confidence margin, as stated:
\* at or above threshold + margin, or below threshold - margin
C21_FiresAsStated(dev, true_count, margin) ==
    IF dev.direction = ABOVE_OR_EQUAL
    THEN RatGe(true_count, RatAdd(RatInt(dev.threshold), margin))
    ELSE RatLt(true_count, RatSub(RatInt(dev.threshold), margin))

\* C21: with confidence margin m >= 0, an AT_OR_ABOVE deviation with
\* threshold t fires exactly when true_count >= t + m and a BELOW deviation
\* exactly when true_count < t - m: on a hand whose key holds one deviation,
\* not a SURRENDER one, a call with deviations enabled reports a deviation
\* exactly when that condition holds.
C21_MarginWidensBothThresholds ==
    (/\ decide_call.made
     /\ decide_call.use_deviations
     /\ Cardinality(called_deviations) = 1) =>
        \A dev \in called_deviations :
            dev.action # "SURRENDER" =>
                ((decision.deviation_id # None) <=>
                    C21_FiresAsStated(dev, decide_call.true_count,
                                      rule_config.deviation_threshold_margin))

\* The action of the highest-priority deviation, SURRENDER ones left out,
\* that is filed under the hand's key and has its count condition met at the
\* call's true count less the margin; none when there is no such deviation
C22_PlayingDeviation ==
    LET NotSurrender(dev) == dev.action # "SURRENDER"
        candidates == rebuild_index(deviation_engine(decide_call.deviations),
                                    called_index_key)
    IN  FirstTriggered(SelectSeq(candidates, NotSurrender),
                       RatSub(decide_call.true_count,
                              rule_config.deviation_threshold_margin))

\* C22: in the general playing-deviation step SURRENDER deviations are
\* excluded and the highest-priority remaining deviation whose count
\* condition is met supplies the action: when surrender is unavailable (not
\* allowed, or the hand has more than two cards) a call with deviations
\* enabled on a hand that is not a pair returns the action of that deviation,
\* e.g. STAND on hard 15 against a ten at a true count of 4 or more.
C22_PlayingDeviationSkipsSurrender ==
    (/\ decide_call.made
     /\ decide_call.use_deviations
     /\ ~rule_config.surrender_allowed \/ Len(hand) > 2
     /\ ~called_hand.is_pair
     /\ C22_PlayingDeviation # None) =>
        decision.action = C22_PlayingDeviation

\* C29: when the rules have surrender_allowed = false, decide never returns
\* SURRENDER, with deviations on or off, whatever action tokens the loaded
\* strategy table contains.
C29_NoSurrenderWhenNotAllowed ==
    (decide_call.made /\ ~rule_config.surrender_allowed) =>
        decision.action # "SURRENDER"
-----------------------------------------------------------------------------
(* Properties of the simulation driver (Spec), continued.                  *)

\* A pass of the loop that hops to another table
C12_TableHop ==
    /\ pc = "loop"
    /\ pc' = "loop"
    /\ run_no' = run_no
    /\ sim'.hands_skipped = sim.hands_skipped + 1

\* C12: with wonging enabled, a pass of the loop hops to another table only
\* when hands_this_shoe, as it stands after the pass's shuffle check, has
\* reached min_hands_per_shoe; hands_this_shoe is 0 after a shuffle or a hop
\* and is one more after each hand played.
C12_NoHopBeforeMinHands ==
    [][/\ C12_TableHop =>
            /\ sim.config.wong_out_threshold # NoThreshold
            /\ (IF needs_shuffle(shoe, sim.rules.penetration)
                THEN 0 ELSE sim.hands_this_shoe) >= sim.config.min_hands_per_shoe
            /\ sim'.hands_this_shoe = 0
       /\ (pc = "loop" /\ pc' \in {"deal", "done"} /\ sim.hand_num < sim.num_hands) =>
            sim'.hands_this_shoe = (IF needs_shuffle(shoe, sim.rules.penetration)
                                    THEN 0 ELSE sim.hands_this_shoe)
       /\ pc = "update" =>
            /\ sim'.hands_this_shoe = sim.hands_this_shoe + 1
            /\ sim'.result.hands_played = sim.result.hands_played + 1
       /\ pc \in {"deal", "player", "dealer", "dealer_play"} =>
            sim'.hands_this_shoe = sim.hands_this_shoe]_vars

\* A run that requires a hand per shoe before a hop has hopped, and has
\* played a hand since.
C12_Witness ==
    /\ sim.config.wong_out_threshold # NoThreshold
    /\ sim.config.min_hands_per_shoe >= 1
    /\ sim.hands_skipped >= 1
    /\ sim.hands_this_shoe >= 1

\* C16: no run ends on an empty shoe: Shoe.deal is never called with the
\* pointer past the last card, whatever the number of decks, the cut
\* penetration, the late-entry depth and the wonging settings.
C16_NeverDealsFromEmptyShoe ==
    pc # "error"

-----------------------------------------------------------------------------
(* Properties of the Betting Engine (SpecBetting), continued.              *)

\* The bet of the recorded call under the model of other rules
C17_BetUnder(rules) ==
    compute_bet(betting_config, from_rules(rules), bet_call.true_count,
                bet_call.bankroll, bet_call.penetration)

\* The rules with the dealer hitting soft 17, and with blackjack paid 6:5
C17_H17(rules) == [rules EXCEPT !.dealer_stands_soft_17 = FALSE]
C17_SixToFive(rules) == [rules EXCEPT !.blackjack_pays = Rat(6, 5)]

\* C17: at the same true count, bankroll, penetration and betting
\* configuration, the bet under S17 rules is at least the bet under the
\* same rules with H17, and the bet under a 3:2 payout at least the bet
\* under 6:5; the H17 and the 6:5 baseline edges are the strictly larger.
C17_BetOrderedByRules ==
    bet_call.made =>
        \A rules \in BettingRules :
            advantage_model = from_rules(rules) =>
                /\ rules.dealer_stands_soft_17 =>
                      /\ RatLess(advantage_model.baseline_edge,
                                 from_rules(C17_H17(rules)).baseline_edge)
                      /\ bet_amount >= C17_BetUnder(C17_H17(rules))
                /\ rules.blackjack_pays = Rat(3, 2) =>
                      /\ RatLess(advantage_model.baseline_edge,
                                 from_rules(C17_SixToFive(rules)).baseline_edge)
                      /\ bet_amount >= C17_BetUnder(C17_SixToFive(rules))

\* A bet under the default S17 3:2 rules that is strictly above the bet the
\* H17 rules size and strictly above the bet the 6:5 rules size.
C17_Witness ==
    /\ bet_call.made
    /\ advantage_model = from_rules(DefaultGameRules)
    /\ bet_amount > C17_BetUnder(C17_H17(DefaultGameRules))
    /\ C17_BetUnder(C17_H17(DefaultGameRules)) > C17_BetUnder(C17_SixToFive(DefaultGameRules))

\* a < b for normalised fractions, the common factor of the denominators
\* taken out before the cross-multiplication
C18_Less(a, b) ==
    LET g == Gcd(a.d, b.d)
    IN  a.n * (b.d \div g) < b.n * (a.d \div g)

-----------------------------------------------------------------------------
(* The exit signal of the live session.                                    *)

-----------------------------------------------------------------------------
(* The per-hand state machine of the simulation driver.                    *)

\* The last action of the hand in play, none before the first decision
C23_LastAction ==
    IF play.actions_taken = <<>> THEN None
    ELSE play.actions_taken[Len(play.actions_taken)]

\* The steps of the per-hand state machine: a decision is requested only
\* after the deal or after a HIT (or the SPLIT that is played as one) that
\* did not bust; a DOUBLE has drawn one card and a SURRENDER none; a bust is
\* settled with the dealer's two cards.
C23_StateMachineSteps ==
    /\ (pc = "player" /\ play.actions_taken # <<>>) =>
          /\ C23_LastAction \in {"HIT", "SPLIT"}
          /\ from_cards(play.player_cards).total <= 21
    /\ (pc \in {"dealer", "dealer_play", "update"} /\ play.actions_taken # <<>>) =>
          /\ Cardinality({i \in 1..Len(play.actions_taken) :
                 play.actions_taken[i] \in {"STAND", "DOUBLE", "SURRENDER"}}) <= 1
          /\ (C23_LastAction = "DOUBLE" =>
                Len(play.player_cards) = Len(play.actions_taken) + 2)
          /\ (C23_LastAction = "SURRENDER" =>
                Len(play.player_cards) = Len(play.actions_taken) + 1)
    /\ (pc = "update" /\ play.hand_result.outcome = "bust") =>
          Len(play.dealer_hand_cards) = 2

\* C23: every simulated hand follows the per-hand state machine and every
\* started hand reaches its settlement: the steps above are the only ones
\* taken, and the run never stops on an exception (from where _play_hand
\* does not return) with a hand dealt and not settled.
C23_StartedHandIsSettled ==
    /\ C23_StateMachineSteps
    /\ ~(pc = "error" /\ play.player_cards # <<>>)

-----------------------------------------------------------------------------
(* The dealer's turn.                                                      *)

\* The dealer's hand when it held its first k cards
C24_DealerHandAt(k) == from_cards(SubSeq(play.dealer_hand_cards, 1, k))

\* A soft 17 under rules where the dealer hits it (H17)
C24_SoftSeventeenToHit(h) ==
    h.total = 17 /\ h.is_soft /\ ~sim.rules.dealer_stands_soft_17

\* C24: the dealer draws while the dealer total is below 17 and, on a soft
\* 17, only under H17 rules: every card the dealer drew was drawn from a
\* total below 17 or from a soft 17 under H17, and when the dealer's turn has
\* ended the dealer total is 17 or more (or bust) and is not a soft 17 under
\* H17.
C24_DealerDrawsToSeventeen ==
    /\ \A k \in 2..(Len(play.dealer_hand_cards) - 1) :
          \/ C24_DealerHandAt(k).total < 17
          \/ C24_SoftSeventeenToHit(C24_DealerHandAt(k))
    /\ (pc = "update" /\ play.hand_result.outcome \in {"win", "push", "loss"}) =>
          /\ from_cards(play.dealer_hand_cards).total >= 17
          /\ ~C24_SoftSeventeenToHit(from_cards(play.dealer_hand_cards))

\* C24: a settled hand whose dealer drew from a soft 17 under H17.
C24_Witness ==
    /\ pc = "update"
    /\ play.hand_result.outcome \in {"win", "push", "loss"}
    /\ \E k \in 2..(Len(play.dealer_hand_cards) - 1) :
          C24_SoftSeventeenToHit(C24_DealerHandAt(k))

-----------------------------------------------------------------------------
(* Settlement.                                                             *)

\* The current bet as the claim states it: twice the wager after a DOUBLE
C25_CurrentBet ==
    IF C23_LastAction = "DOUBLE" THEN RatMul(play.bet, RatInt(2)) ELSE play.bet

\* The net result the rules of settlement give the hand in play
C25_NetByRule ==
    LET player_total == from_cards(play.player_cards).total
        dealer_total == from_cards(play.dealer_hand_cards).total
        natural(cards) == Len(cards) = 2 /\ from_cards(cards).total = 21
    IN  IF natural(play.player_cards)
        THEN (IF natural(play.dealer_hand_cards) THEN RatInt(0)
              ELSE RatMul(play.bet, sim.rules.blackjack_pays))
        ELSE IF C23_LastAction = "SURRENDER" THEN RatMul(play.bet, Rat(-1, 2))
        ELSE IF player_total > 21 THEN RatMul(C25_CurrentBet, RatInt(-1))
        ELSE IF dealer_total > 21 \/ player_total > dealer_total THEN C25_CurrentBet
        ELSE IF player_total = dealer_total THEN RatInt(0)
        ELSE RatMul(C25_CurrentBet, RatInt(-1))

\* C25: every settled hand's net result follows the rule for its outcome: a
\* natural against a natural is a push and otherwise nets bet x
\* blackjack_pays; a surrender nets -bet/2; a bust nets minus the current
\* bet; otherwise a dealer bust or a higher player total nets plus the
\* current bet, equal totals net 0 and a lower total nets minus the current
\* bet, the current bet being twice the wager after a DOUBLE.
C25_NetResultFollowsOutcome ==
    pc = "update" => RatEq(play.hand_result.net_result, C25_NetByRule)

\* C25: a doubled hand settled against the dealer's hand, won or lost.
C25_Witness ==
    /\ pc = "update"
    /\ C23_LastAction = "DOUBLE"
    /\ play.hand_result.outcome \in {"win", "loss"}
    /\ from_cards(play.player_cards).total <= 21

-----------------------------------------------------------------------------
(* The number of hands of a run.                                           *)

\* C26: a run asked for num_hands hands that is not stopped by bankruptcy
\* ends with hands_played = num_hands: a table hop does not use up one of
\* the requested hands.
C26_PlaysRequestedHands ==
    (pc = "done" /\ RatLess(RatInt(0), sim.bankroll)) =>
        sim.result.hands_played = sim.num_hands

-----------------------------------------------------------------------------
(* The State Manager and the shoe.                                         *)

\* C27: at every hand boundary of a run (before a hand is dealt and after it
\* is settled, right after a shuffle, a late-entry burn or a table hop
\* included) the State Manager's cards_seen equals the shoe's dealt-card
\* index, so its penetration is the shoe's.
C27_CardsSeenIsDealtIndex ==
    pc \in {"loop", "deal", "update", "done"} =>
        /\ state_manager.cards_seen = shoe.dealt_index
        /\ RatEq(get_metrics(state_manager).penetration,
                 shoe_penetration(shoe))

\* C27: a hand settled in a shoe that was entered late, after a burn, or a
\* new table entered late after a hop.
C27_Witness ==
    /\ pc \in {"update", "loop"}
    /\ reset_burn > 0
    /\ sim.result.hands_played + sim.hands_skipped > 0
    /\ shoe.dealt_index > reset_burn

-----------------------------------------------------------------------------
(* The bankroll.                                                           *)

\* C28: throughout a run the bankroll never becomes negative: the amount
\* lost on a hand, a doubled hand included, never exceeds the bankroll held
\* when the hand was dealt.
C28_BankrollNeverNegative ==
    /\ ~RatLess(sim.bankroll, RatInt(0))
    /\ pc = "update" =>
          ~RatLess(RatAdd(sim.bankroll, play.hand_result.net_result), RatInt(0))

\* The starting bankroll plus everything paid out minus everything staked
C30_Ledger ==
    RatAdd(sim.starting_bankroll,
           RatNorm(RatSub(sim.result.total_won, sim.result.total_wagered)))

====
